---- MODULE Spec2Model ----
(***************************************************************************)
(* The room/session state machine of server/signaling_server_v2.py.       *)
(*                                                                         *)
(* Every connection is served by one task (handler): it handles the        *)
(* connection's messages one after the other and, once the connection is   *)
(* closed, runs unregister_client.  Tasks of different connections         *)
(* interleave at the awaits that can give up control: a direct             *)
(* websocket.send, an asyncio.gather over at least one send, a connection  *)
(* close and a call of the IRC bridge that writes to its socket.  An       *)
(* action of this model is the code between two such awaits.  The IRC      *)
(* bridge's listener is one more task: it hands each PRIVMSG of a mapped   *)
(* channel to the callback create_room registered for the room.            *)
(***************************************************************************)
EXTENDS Integers, Sequences, FiniteSets, TLC

\* ---------------------------------------------------------------- bounds
NumConns == 3
MaxMsgs == 5
ModMsgs == 3
MsgMsgs == 3
IrcMsgs == 3
BanMsgs == 3
ChurnMsgs == 3
KickMsgs == 3
NameMsgs == 3
LazyMsgs == 3
TwinMsgs == 3
ChatMsgs == 2

Conns == 1..NumConns
IrcPeer == 0
None == "None"

VARIABLES
    clients,            \* dict websocket -> {'id', 'room', 'username'}
    rooms,              \* dict room_id -> {'users','password','irc_channel','moderator','banned'}
    irc_bridge,         \* the global irc_bridge: None, "connecting" or "connected"
    room_channels,      \* IRCBridge.room_channels: room_id -> channel
    message_callbacks,  \* IRCBridge.message_callbacks: the rooms with a callback
    open,               \* open[c]: the websocket of c is open
    pc,                 \* where the task of connection c stands
    frame,              \* the local variables of the handler c is running
    sent,               \* what the handler c is running has sent so far
    nmsgs,              \* number of messages received so far
    inbound             \* what the bridge's listener sent for its last PRIVMSG

vars == <<clients, rooms, irc_bridge, room_channels, message_callbacks,
          open, pc, frame, sent, nmsgs, inbound>>

\* the server's shared state, as the running code sees it
World ==
    [clients |-> clients, rooms |-> rooms,
     irc_bridge |-> irc_bridge, room_channels |-> room_channels,
     message_callbacks |-> message_callbacks]

\* ---------------------------------------------------------------- values
\* Python truthiness of an optional string
Truthy(x) == x \notin {None, ""}

hash_password(password) == "sha256(" \o password \o ")"

\* client_id[:8]
Prefix8(id) == IF id = "client-0123456789" THEN "client-0" ELSE id

DefaultName(client_id) == "User_" \o Prefix8(client_id)

\* data.get('newUsername', '').strip() on the names the model sends
Strip(s) == CASE s \in {None, " "} -> ""
              [] s = " n1 " -> "n1"
              [] OTHER -> s

\* IRCBridge.join_channel: channel = f"#{channel}" unless it starts with '#'
Channel(channel) == IF channel = "#chan" THEN channel ELSE "#" \o channel

Put(f, k, v) == [x \in DOMAIN f \cup {k} |-> IF x = k THEN v ELSE f[x]]
Del(f, k) == [x \in DOMAIN f \ {k} |-> f[x]]

\* an inbound envelope; data.get(...) of an absent field is None
Msg(type) ==
    [type |-> type, clientId |-> None, username |-> None, roomId |-> None,
     password |-> None, ircChannel |-> None, targetId |-> None,
     newUsername |-> None, senderId |-> None, data |-> None]

\* the locals of a running handler
Fr(m) == [msg |-> m, caller |-> None, room |-> None, lroom |-> None,
          tgt |-> 0, client_id |-> None, username |-> None,
          old_username |-> None, new_username |-> None, exc |-> None]
NoFrame == Fr(Msg("none"))

\* an outbound event; ok: the websocket it is sent on is open
Ev(to, type) ==
    [to |-> to, type |-> type, ok |-> (to = IrcPeer \/ open[to]),
     message |-> None, roomId |-> None, clientId |-> None, username |-> None,
     users |-> {}, hasPassword |-> FALSE, isModerator |-> FALSE,
     moderatorId |-> None, ircChannel |-> None, oldUsername |-> None,
     newUsername |-> None, senderId |-> None, data |-> None]

ErrorEv(to, text) == [Ev(to, "error") EXCEPT !.message = text]

\* the listener has handled no PRIVMSG yet
NoDelivery == [room |-> None, nick |-> None, evs |-> <<>>]

\* a call of the IRC bridge
IrcEv(type, room_id, text) ==
    [Ev(IrcPeer, type) EXCEPT !.roomId = room_id, !.message = text]

\* send_raw writes and drains only once the bridge has a writer
IrcWrites(w) == w.irc_bridge = "connected"

\* ------------------------------------------------------ broadcast_to_room
\* the websockets broadcast_to_room sends to
Recipients(w, room_id, exclude) ==
    IF room_id \in DOMAIN w.rooms
    THEN {x \in w.rooms[room_id].users : x # exclude /\ x \in DOMAIN w.clients}
    ELSE {}

\* one event per recipient (asyncio.gather: the order among recipients is free)
Bcast(recips, ev) ==
    LET s == SelectSeq([i \in 1..NumConns |-> i], LAMBDA x : x \in recips)
    IN  [i \in 1..Len(s) |-> [ev EXCEPT !.to = s[i], !.ok = open[s[i]]]]

\* -------------------------------------------------------- control of a task
Go(c, label, fr, evs) ==
    /\ pc' = [pc EXCEPT ![c] = label]
    /\ frame' = [frame EXCEPT ![c] = fr]
    /\ sent' = [sent EXCEPT ![c] = evs]

\* the task gives up control at label (for "ret": handle_message returns)
Suspend(c, label, fr, w, evs) ==
    /\ clients' = w.clients
    /\ rooms' = w.rooms
    /\ irc_bridge' = w.irc_bridge
    /\ room_channels' = w.room_channels
    /\ message_callbacks' = w.message_callbacks
    /\ inbound' = inbound
    /\ Go(c, label, fr, evs)

\* an exception inside handle_message: logged, the handler returns
Raise(c, exc, fr, w, evs) ==
    Suspend(c, "ret", [fr EXCEPT !.exc = exc], w, evs)

\* a websocket.send that is the handler's last statement
SendLast(c, ev, fr, w, evs) ==
    IF ev.ok
    THEN Suspend(c, "ret", fr, w, evs \o <<ev>>)
    ELSE Raise(c, "ConnectionClosed", fr, w, evs \o <<ev>>)

\* a websocket.send with code after it
SendThen(c, ev, label, fr, w, evs) ==
    IF ev.ok
    THEN Suspend(c, label, fr, w, evs \o <<ev>>)
    ELSE Raise(c, "ConnectionClosed", fr, w, evs \o <<ev>>)

\* --------------------------------------- the end of a handler: IRC notice
\* info['username'] of the session a moderator action found, read after an
\* await (the name the session has by then)
TargetName(fr, w) ==
    IF fr.tgt \in DOMAIN w.clients THEN w.clients[fr.tgt].username
    ELSE fr.username

\* the text of the notice a handler ends with
NoticeText(fr, w) ==
    CASE fr.msg.type \in {"join-room", "create-room"} ->
            fr.username \o " joined the room"
      [] fr.msg.type = "promote-moderator" ->
            TargetName(fr, w) \o " is now a moderator"
      [] fr.msg.type = "moderator-change-name" ->
            "Moderator changed " \o fr.old_username \o "'s name to "
                \o fr.new_username
      [] fr.msg.type = "change-name" ->
            fr.old_username \o " changed their name to " \o fr.new_username
      [] fr.msg.type = "chat-message" -> fr.msg.data
      [] OTHER -> None

\* the username send_message is called with
NoticeAuthor(fr) ==
    IF fr.msg.type = "chat-message" THEN fr.username ELSE "System"

\* 'video-state' and 'audio-state' end with their broadcast
StateTypes == {"video-state", "audio-state"}

\* `if irc_bridge and rooms[room].get('irc_channel'): await send_message(..)`
IrcNotice(c, fr, w, evs) ==
    LET room == fr.room IN
    IF fr.msg.type \in StateTypes THEN Suspend(c, "ret", fr, w, evs)
    ELSE IF w.irc_bridge = None THEN Suspend(c, "ret", fr, w, evs)
    ELSE IF room \notin DOMAIN w.rooms THEN Raise(c, "KeyError", fr, w, evs)
    ELSE IF ~Truthy(w.rooms[room].irc_channel) THEN Suspend(c, "ret", fr, w, evs)
    ELSE LET evs1 == evs \o <<[IrcEv("send_message", room, NoticeText(fr, w))
                                 EXCEPT !.username = NoticeAuthor(fr)]>>
         IN  IF room \in DOMAIN w.room_channels /\ IrcWrites(w)
             THEN Suspend(c, "fin_irc", fr, w, evs1)
             ELSE Suspend(c, "ret", fr, w, evs1)

\* the event of the broadcast a handler makes after its direct send
FinalEvent(c, fr, w) ==
    CASE fr.msg.type \in {"join-room", "create-room"} ->
            [Ev(c, "user-joined") EXCEPT !.clientId = fr.client_id,
                                         !.username = fr.username]
      [] fr.msg.type = "promote-moderator" ->
            [Ev(c, "moderator-promoted") EXCEPT
                !.moderatorId = fr.msg.targetId,
                !.username = TargetName(fr, w)]
      [] fr.msg.type = "moderator-change-name" ->
            [Ev(c, "name-changed") EXCEPT
                !.clientId = fr.msg.targetId,
                !.oldUsername = fr.old_username,
                !.newUsername = fr.new_username]
      [] fr.msg.type = "change-name" ->
            [Ev(c, "name-changed") EXCEPT
                !.clientId = fr.client_id,
                !.oldUsername = fr.old_username,
                !.newUsername = fr.new_username]
      [] fr.msg.type = "chat-message" ->
            [Ev(c, "chat-message") EXCEPT !.username = fr.username,
                                          !.message = fr.msg.data]
      [] fr.msg.type \in StateTypes ->
            [Ev(c, fr.msg.type) EXCEPT
                !.clientId = fr.client_id,
                !.data = IF fr.msg.data = None THEN "true" ELSE fr.msg.data]
      [] OTHER -> Ev(c, "none")

\* whom that broadcast leaves out
FinalExclude(c, fr) ==
    IF fr.msg.type \in {"join-room", "create-room", "change-name"}
                          \cup StateTypes
    THEN c
    ELSE 0

\* the broadcast given up at a failed send (a gather that raises)
FinalBroadcastAborts(c, fr, w, evs) ==
    LET recips == Recipients(w, fr.room, FinalExclude(c, fr))
        evs1 == evs \o Bcast(recips, FinalEvent(c, fr, w))
    IN  IF recips = {} THEN IrcNotice(c, fr, w, evs)
        ELSE IF \E x \in recips : ~open[x]
        THEN Raise(c, "ConnectionClosed", fr, w, evs1)
        ELSE Suspend(c, "fin_bcast", fr, w, evs1)

\* the broadcast, then the notice
FinalBroadcast(c, fr, w, evs) ==
    LET recips == Recipients(w, fr.room, FinalExclude(c, fr))
    IN  IF recips # {}
        THEN Suspend(c, "fin_bcast", fr, w,
                     evs \o Bcast(recips, FinalEvent(c, fr, w)))
        ELSE IrcNotice(c, fr, w, evs)

\* ------------------------------------------------------------- join_room
\* the insertion, with the first member of a room told it is the moderator
JoinAddFirstIsModerator(c, fr, w, evs) ==
    LET room_id == fr.msg.roomId IN
    IF room_id \notin DOMAIN w.rooms THEN Raise(c, "KeyError", fr, w, evs)
    ELSE
    LET w1 == [w EXCEPT !.rooms[room_id].users = @ \cup {c},
                        !.clients[c].room = room_id]
        others == w1.rooms[room_id].users \ {c}
        room == w1.rooms[room_id]
    IN  IF \E x \in others : x \notin DOMAIN w1.clients
        THEN Raise(c, "KeyError", fr, w1, evs)
        ELSE
        LET ev == [Ev(c, "room-joined") EXCEPT
                      !.roomId = room_id,
                      !.users = {[ws |-> x, id |-> w1.clients[x].id,
                                  username |-> w1.clients[x].username]
                                 : x \in others},
                      !.hasPassword = (room.password # None),
                      !.ircChannel = room.irc_channel,
                      !.isModerator = (others = {}),
                      !.moderatorId = room.moderator]
        IN  SendThen(c, ev, "sent1", fr, w1, evs)

\* "Join new room": the insertion and the room-joined reply
JoinAdd(c, fr, w, evs) ==
    LET room_id == fr.msg.roomId IN
    IF room_id \notin DOMAIN w.rooms THEN Raise(c, "KeyError", fr, w, evs)
    ELSE
    LET w1 == [w EXCEPT !.rooms[room_id].users = @ \cup {c},
                        !.clients[c].room = room_id]
        others == w1.rooms[room_id].users \ {c}
        room == w1.rooms[room_id]
    IN  IF \E x \in others : x \notin DOMAIN w1.clients
        THEN Raise(c, "KeyError", fr, w1, evs)
        ELSE
        LET ev == [Ev(c, "room-joined") EXCEPT
                      !.roomId = room_id,
                      !.users = {[ws |-> x, id |-> w1.clients[x].id,
                                  username |-> w1.clients[x].username]
                                 : x \in others},
                      !.hasPassword = (room.password # None),
                      !.ircChannel = room.irc_channel,
                      !.isModerator = (room.moderator = fr.client_id),
                      !.moderatorId = room.moderator]
        IN  SendThen(c, ev, "sent1", fr, w1, evs)

\* ------------------------------------------------------------ leave_room
\* what follows leave_room in its caller
AfterLeave(c, fr, w, evs) ==
    IF fr.caller = "join_room"
    THEN JoinAdd(c, fr, w, evs)
    ELSE Suspend(c, "ret", fr, w, evs)

\* leave_room leaving the emptied room in the directory
LeaveCleanupKeepsRoom(c, fr, w, evs) ==
    LET room == fr.lroom IN
    IF room \notin DOMAIN w.rooms THEN Raise(c, "KeyError", fr, w, evs)
    ELSE AfterLeave(c, fr, w, evs)

\* "Clean up empty rooms" of leave_room
LeaveCleanup(c, fr, w, evs) ==
    LET room == fr.lroom IN
    IF room \notin DOMAIN w.rooms THEN Raise(c, "KeyError", fr, w, evs)
    ELSE IF w.rooms[room].users # {} THEN AfterLeave(c, fr, w, evs)
    ELSE IF w.irc_bridge # None /\ Truthy(w.rooms[room].irc_channel)
    THEN LET evs1 == evs \o <<IrcEv("leave_channel", room, None)>> IN
         IF room \notin DOMAIN w.room_channels
         THEN AfterLeave(c, fr, [w EXCEPT !.rooms = Del(@, room)], evs1)
         ELSE IF IrcWrites(w)
         THEN Suspend(c, "lv_part", fr, w, evs1)
         ELSE AfterLeave(c, fr, [w EXCEPT !.room_channels = Del(@, room),
                                          !.rooms = Del(@, room)], evs1)
    ELSE AfterLeave(c, fr, [w EXCEPT !.rooms = Del(@, room)], evs)

\* leave_room up to its broadcast
LeaveRoom(c, fr, w, evs) ==
    LET room == w.clients[c].room IN
    IF Truthy(room) /\ room \in DOMAIN w.rooms
    THEN LET w1 == [w EXCEPT !.rooms[room].users = @ \ {c},
                             !.clients[c].room = None]
             recips == Recipients(w1, room, c)
             ev == [Ev(c, "user-left") EXCEPT
                       !.clientId = w.clients[c].id,
                       !.username = w.clients[c].username]
             fr1 == [fr EXCEPT !.lroom = room]
         IN  IF recips # {}
             THEN Suspend(c, "lv_bcast", fr1, w1, evs \o Bcast(recips, ev))
             ELSE LeaveCleanup(c, fr1, w1, evs)
    ELSE AfterLeave(c, fr, w, evs)

\* join_room with the password checked before the ban
JoinRoomPasswordFirst(c, fr, w, evs) ==
    LET room_id == fr.msg.roomId
        password == fr.msg.password
    IN
    IF c \notin DOMAIN w.clients THEN Raise(c, "KeyError", fr, w, evs)
    ELSE IF room_id \notin DOMAIN w.rooms
    THEN SendLast(c, ErrorEv(c, "Room does not exist"), fr, w, evs)
    ELSE IF w.rooms[room_id].password # None /\ ~Truthy(password)
    THEN SendLast(c, [Ev(c, "password-required") EXCEPT !.roomId = room_id],
                  fr, w, evs)
    ELSE IF w.rooms[room_id].password # None
            /\ hash_password(password) # w.rooms[room_id].password
    THEN SendLast(c, ErrorEv(c, "Incorrect password"), fr, w, evs)
    ELSE IF w.clients[c].id \in w.rooms[room_id].banned
    THEN SendLast(c, ErrorEv(c, "You have been banned from this room"),
                  fr, w, evs)
    ELSE LET fr1 == [fr EXCEPT !.caller = "join_room",
                               !.room = room_id,
                               !.client_id = w.clients[c].id,
                               !.username = w.clients[c].username]
         IN  IF Truthy(w.clients[c].room)
             THEN LeaveRoom(c, fr1, w, evs)
             ELSE JoinAdd(c, fr1, w, evs)

\* join_room answering a missing password like a wrong one
JoinRoomOneReply(c, fr, w, evs) ==
    LET room_id == fr.msg.roomId
        password == fr.msg.password
    IN
    IF c \notin DOMAIN w.clients THEN Raise(c, "KeyError", fr, w, evs)
    ELSE IF room_id \notin DOMAIN w.rooms
    THEN SendLast(c, ErrorEv(c, "Room does not exist"), fr, w, evs)
    ELSE IF w.clients[c].id \in w.rooms[room_id].banned
    THEN SendLast(c, ErrorEv(c, "You have been banned from this room"),
                  fr, w, evs)
    ELSE IF w.rooms[room_id].password # None
            /\ (~Truthy(password)
                \/ hash_password(password) # w.rooms[room_id].password)
    THEN SendLast(c, ErrorEv(c, "Incorrect password"), fr, w, evs)
    ELSE LET fr1 == [fr EXCEPT !.caller = "join_room",
                               !.room = room_id,
                               !.client_id = w.clients[c].id,
                               !.username = w.clients[c].username]
         IN  IF Truthy(w.clients[c].room)
             THEN LeaveRoom(c, fr1, w, evs)
             ELSE JoinAdd(c, fr1, w, evs)

\* join_room taking the session out of its room when the password is wrong
JoinRoomRejectLeaves(c, fr, w, evs) ==
    LET room_id == fr.msg.roomId
        password == fr.msg.password
        cur == w.clients[c].room
        out == IF cur \in DOMAIN w.rooms
               THEN [w EXCEPT !.rooms[cur].users = @ \ {c},
                              !.clients[c].room = None]
               ELSE w
    IN
    IF c \notin DOMAIN w.clients THEN Raise(c, "KeyError", fr, w, evs)
    ELSE IF room_id \notin DOMAIN w.rooms
    THEN SendLast(c, ErrorEv(c, "Room does not exist"), fr, w, evs)
    ELSE IF w.clients[c].id \in w.rooms[room_id].banned
    THEN SendLast(c, ErrorEv(c, "You have been banned from this room"),
                  fr, w, evs)
    ELSE IF w.rooms[room_id].password # None /\ ~Truthy(password)
    THEN SendLast(c, [Ev(c, "password-required") EXCEPT !.roomId = room_id],
                  fr, w, evs)
    ELSE IF w.rooms[room_id].password # None
            /\ hash_password(password) # w.rooms[room_id].password
    THEN SendLast(c, ErrorEv(c, "Incorrect password"), fr, out, evs)
    ELSE LET fr1 == [fr EXCEPT !.caller = "join_room",
                               !.room = room_id,
                               !.client_id = w.clients[c].id,
                               !.username = w.clients[c].username]
         IN  IF Truthy(w.clients[c].room)
             THEN LeaveRoom(c, fr1, w, evs)
             ELSE JoinAdd(c, fr1, w, evs)

\* join_room up to the insertion: the ordered checks, the implicit leave
JoinRoom(c, fr, w, evs) ==
    LET room_id == fr.msg.roomId
        password == fr.msg.password
    IN
    IF c \notin DOMAIN w.clients THEN Raise(c, "KeyError", fr, w, evs)
    ELSE IF room_id \notin DOMAIN w.rooms
    THEN SendLast(c, ErrorEv(c, "Room does not exist"), fr, w, evs)
    ELSE IF w.clients[c].id \in w.rooms[room_id].banned
    THEN SendLast(c, ErrorEv(c, "You have been banned from this room"),
                  fr, w, evs)
    ELSE IF w.rooms[room_id].password # None /\ ~Truthy(password)
    THEN SendLast(c, [Ev(c, "password-required") EXCEPT !.roomId = room_id],
                  fr, w, evs)
    ELSE IF w.rooms[room_id].password # None
            /\ hash_password(password) # w.rooms[room_id].password
    THEN SendLast(c, ErrorEv(c, "Incorrect password"), fr, w, evs)
    ELSE LET fr1 == [fr EXCEPT !.caller = "join_room",
                               !.room = room_id,
                               !.client_id = w.clients[c].id,
                               !.username = w.clients[c].username]
         IN  IF Truthy(w.clients[c].room)
             THEN LeaveRoom(c, fr1, w, evs)
             ELSE JoinAdd(c, fr1, w, evs)

\* ----------------------------------------------------------- create_room
NewRoom(password, irc_channel, moderator_id) ==
    [users |-> {},
     password |-> IF Truthy(password) THEN hash_password(password) ELSE None,
     irc_channel |-> irc_channel,
     moderator |-> moderator_id,
     banned |-> {}]

\* create_room from `if irc_bridge and irc_channel`, then join_room
CreateJoinChannel(c, fr, w, evs) ==
    LET room_id == fr.msg.roomId
        evs1 == evs \o <<IrcEv("join_channel", room_id,
                               Channel(fr.msg.ircChannel))>>
    IN  IF w.irc_bridge = None THEN JoinRoom(c, fr, w, evs)
        ELSE IF IrcWrites(w) THEN Suspend(c, "cr_join", fr, w, evs1)
        ELSE JoinRoom(c, fr,
                      [w EXCEPT !.room_channels =
                                    Put(@, room_id, Channel(fr.msg.ircChannel)),
                                !.message_callbacks = @ \cup {room_id}],
                      evs1)

\* --------------------------------------------------------- handle_message
\* No task is between its last await and its return to the event loop: "ret",
\* "done" and "crashed" are places on a running task's way with no await
\* before the next one, so nothing else runs while a task is there.
Yielded == \A x \in Conns : pc[x] \notin {"ret", "done", "crashed"}

\* the event loop resumes the task of c, which waits at label
At(c, label) == Yielded /\ pc[c] = label

\* the task of c takes the next message off its open websocket
Recv(c) == At(c, "idle") /\ open[c]

Counted == nmsgs' = nmsgs + 1 /\ open' = open
Resumed == nmsgs' = nmsgs /\ open' = open

\* handle_message returned: the task is back in `async for message`
Return(c) ==
    /\ pc[c] = "ret"
    /\ Suspend(c, "idle", NoFrame, World, <<>>)
    /\ Resumed

\* the peer (or the network) closes the websocket of c
ClientClose(c) ==
    /\ Yielded
    /\ open[c]
    /\ open' = [open EXCEPT ![c] = FALSE]
    /\ UNCHANGED <<clients, rooms, irc_bridge, room_channels,
                   message_callbacks, pc, frame, sent, nmsgs, inbound>>

\* 'register'
Register(c, client_id, username) ==
    LET fr == Fr([Msg("register") EXCEPT !.clientId = client_id,
                                         !.username = username])
        name == IF Truthy(username) THEN username ELSE DefaultName(client_id)
        w1 == [World EXCEPT
                 !.clients = Put(@, c, [id |-> client_id, room |-> None,
                                        username |-> name])]
        ev == [Ev(c, "registered") EXCEPT !.clientId = client_id,
                                          !.username = username]
    IN
    /\ Recv(c)
    /\ IF ~Truthy(username) /\ client_id = None
       THEN Raise(c, "TypeError", fr, World, <<>>)
       ELSE SendLast(c, ev, fr, w1, <<>>)
    /\ Counted

\* 'create-room'
CreateRoom(c, room_id, password, irc_channel) ==
    LET fr == Fr([Msg("create-room") EXCEPT !.roomId = room_id,
                                            !.password = password,
                                            !.ircChannel = irc_channel])
        w1 == [World EXCEPT
                 !.rooms = Put(@, room_id,
                               NewRoom(password, irc_channel, clients[c].id))]
    IN
    /\ Recv(c)
    /\ IF c \notin DOMAIN clients THEN Raise(c, "KeyError", fr, World, <<>>)
       ELSE IF room_id \in DOMAIN rooms THEN JoinRoom(c, fr, World, <<>>)
       ELSE IF ~Truthy(irc_channel) THEN JoinRoom(c, fr, w1, <<>>)
       ELSE IF irc_bridge = None
       THEN Suspend(c, "cr_init", fr, [w1 EXCEPT !.irc_bridge = "connecting"],
                    <<IrcEv("connect", room_id, None)>>)
       ELSE CreateJoinChannel(c, fr, w1, <<>>)
    /\ Counted

\* init_irc_bridge: connect() has returned (ok) or raised
CreateInitDone(c, ok) ==
    /\ At(c, "cr_init")
    /\ CreateJoinChannel(c, frame[c],
           [World EXCEPT !.irc_bridge = IF ok THEN "connected" ELSE None],
           sent[c])
    /\ Resumed

\* join_channel's send_raw has drained (ok) or raised
CreateJoinDone(c, ok) ==
    LET room_id == frame[c].msg.roomId IN
    /\ At(c, "cr_join")
    /\ IF ok
       THEN JoinRoom(c, frame[c],
                [World EXCEPT
                   !.room_channels =
                       Put(@, room_id, Channel(frame[c].msg.ircChannel)),
                   !.message_callbacks = @ \cup {room_id}],
                sent[c])
       ELSE Raise(c, "ConnectionError", frame[c], World, sent[c])
    /\ Resumed

\* 'join-room'
JoinRoomMsg(c, room_id, password) ==
    LET fr == Fr([Msg("join-room") EXCEPT !.roomId = room_id,
                                          !.password = password])
        w1 == IF room_id \in DOMAIN rooms THEN World
              ELSE [World EXCEPT
                      !.rooms = Put(@, room_id, NewRoom(None, None, None))]
    IN
    /\ Recv(c)
    /\ JoinRoom(c, fr, w1, <<>>)
    /\ Counted

\* 'leave-room'
LeaveRoomMsg(c) ==
    LET fr == [Fr(Msg("leave-room")) EXCEPT !.caller = "leave-room"] IN
    /\ Recv(c)
    /\ IF c \notin DOMAIN clients
       THEN Raise(c, "KeyError", fr, World, <<>>)
       ELSE LeaveRoom(c, fr, World, <<>>)
    /\ Counted

\* leave_room: the broadcast of user-left is done
LeaveBcastDone(c) ==
    /\ At(c, "lv_bcast")
    /\ LeaveCleanup(c, frame[c], World, sent[c])
    /\ Resumed

\* leave_room: leave_channel's send_raw has drained (ok) or raised
LeavePartDone(c, ok) ==
    LET room == frame[c].lroom IN
    /\ At(c, "lv_part")
    /\ IF ~ok THEN Raise(c, "ConnectionError", frame[c], World, sent[c])
       ELSE IF room \notin DOMAIN room_channels
       THEN Raise(c, "KeyError", frame[c], World, sent[c])
       ELSE LET w1 == [World EXCEPT !.room_channels = Del(@, room)] IN
            IF room \notin DOMAIN rooms
            THEN Raise(c, "KeyError", frame[c], w1, sent[c])
            ELSE AfterLeave(c, frame[c], [w1 EXCEPT !.rooms = Del(@, room)],
                            sent[c])
    /\ Resumed

\* the direct send of a handler is done: its broadcast follows
DirectSendDone(c) ==
    /\ At(c, "sent1")
    /\ FinalBroadcast(c, frame[c], World, sent[c])
    /\ Resumed

\* the last broadcast of a handler is done: its IRC notice follows
BroadcastDone(c) ==
    /\ At(c, "fin_bcast")
    /\ IrcNotice(c, frame[c], World, sent[c])
    /\ Resumed

\* the send_message that ends a handler has drained (ok) or raised
IrcNoticeDone(c, ok) ==
    /\ At(c, "fin_irc")
    /\ IF ok THEN Suspend(c, "ret", frame[c], World, sent[c])
       ELSE Raise(c, "ConnectionError", frame[c], World, sent[c])
    /\ Resumed

\* ------------------------------------------------------ unregister_client
\* `del clients[websocket]`: the task of c ends
UnregFinish(c, fr, w, evs) ==
    Suspend(c, "done", fr, [w EXCEPT !.clients = Del(@, c)], evs)

\* an exception inside unregister_client ends the task before the `del`
UnregCrash(c, exc, fr, w, evs) ==
    Suspend(c, "crashed", [fr EXCEPT !.exc = exc], w, evs)

\* "Clean up empty rooms" of unregister_client
UnregCleanup(c, fr, w, evs) ==
    LET room == fr.lroom IN
    IF room \notin DOMAIN w.rooms THEN UnregCrash(c, "KeyError", fr, w, evs)
    ELSE IF w.rooms[room].users # {} THEN UnregFinish(c, fr, w, evs)
    ELSE IF w.irc_bridge # None /\ Truthy(w.rooms[room].irc_channel)
    THEN LET evs1 == evs \o <<IrcEv("leave_channel", room, None)>> IN
         IF room \notin DOMAIN w.room_channels
         THEN UnregFinish(c, fr, [w EXCEPT !.rooms = Del(@, room)], evs1)
         ELSE IF IrcWrites(w)
         THEN Suspend(c, "un_part", fr, w, evs1)
         ELSE UnregFinish(c, fr, [w EXCEPT !.room_channels = Del(@, room),
                                           !.rooms = Del(@, room)], evs1)
    ELSE UnregFinish(c, fr, [w EXCEPT !.rooms = Del(@, room)], evs)

\* "Send IRC notification" of unregister_client
UnregNotice(c, fr, w, evs) ==
    LET room == fr.lroom IN
    IF w.irc_bridge = None THEN UnregCleanup(c, fr, w, evs)
    ELSE IF room \notin DOMAIN w.rooms THEN UnregCrash(c, "KeyError", fr, w, evs)
    ELSE IF ~Truthy(w.rooms[room].irc_channel) THEN UnregCleanup(c, fr, w, evs)
    ELSE LET evs1 == evs \o <<IrcEv("send_message", room,
                                    fr.username \o " left the room")>>
         IN  IF room \in DOMAIN w.room_channels /\ IrcWrites(w)
             THEN Suspend(c, "un_msg", fr, w, evs1)
             ELSE UnregCleanup(c, fr, w, evs1)

\* the websocket of c is closed and its task is out of `async for`
Unregister(c) ==
    /\ At(c, "idle")
    /\ ~open[c]
    /\ IF c \notin DOMAIN clients
       THEN Suspend(c, "done", Fr(Msg("disconnect")), World, <<>>)
       ELSE LET room == clients[c].room
                fr == [Fr(Msg("disconnect")) EXCEPT
                         !.lroom = room, !.client_id = clients[c].id,
                         !.username = clients[c].username]
            IN  IF Truthy(room) /\ room \in DOMAIN rooms
                THEN LET w1 == [World EXCEPT !.rooms[room].users = @ \ {c}]
                         recips == Recipients(w1, room, c)
                         ev == [Ev(c, "user-left") EXCEPT
                                   !.clientId = fr.client_id,
                                   !.username = fr.username]
                     IN  IF recips # {}
                         THEN Suspend(c, "un_bcast", fr, w1, Bcast(recips, ev))
                         ELSE UnregNotice(c, fr, w1, <<>>)
                ELSE UnregFinish(c, fr, World, <<>>)
    /\ Resumed

\* handler() is over: the task of c and its locals are gone
TaskEnd(c) ==
    /\ pc[c] \in {"done", "crashed"}
    /\ Suspend(c, "gone", NoFrame, World, <<>>)
    /\ Resumed

\* unregister_client: the broadcast of user-left is done
UnregBcastDone(c) ==
    /\ At(c, "un_bcast")
    /\ UnregNotice(c, frame[c], World, sent[c])
    /\ Resumed

\* unregister_client: send_message has drained (ok) or raised
UnregNoticeDone(c, ok) ==
    /\ At(c, "un_msg")
    /\ IF ok THEN UnregCleanup(c, frame[c], World, sent[c])
       ELSE UnregCrash(c, "ConnectionError", frame[c], World, sent[c])
    /\ Resumed

\* unregister_client: leave_channel's send_raw has drained (ok) or raised
UnregPartDone(c, ok) ==
    LET room == frame[c].lroom IN
    /\ At(c, "un_part")
    /\ IF ~ok THEN UnregCrash(c, "ConnectionError", frame[c], World, sent[c])
       ELSE IF room \notin DOMAIN room_channels
       THEN UnregCrash(c, "KeyError", frame[c], World, sent[c])
       ELSE LET w1 == [World EXCEPT !.room_channels = Del(@, room)] IN
            IF room \notin DOMAIN rooms
            THEN UnregCrash(c, "KeyError", frame[c], w1, sent[c])
            ELSE UnregFinish(c, frame[c], [w1 EXCEPT !.rooms = Del(@, room)],
                             sent[c])
    /\ Resumed

\* ------------------------------------------------------------ moderation
\* `room and rooms[room]['moderator'] == client_info['id']`
ModGate(c) ==
    IF c \notin DOMAIN clients THEN "KeyError"
    ELSE IF ~Truthy(clients[c].room) THEN "deny"
    ELSE IF clients[c].room \notin DOMAIN rooms THEN "KeyError"
    ELSE IF rooms[clients[c].room].moderator = clients[c].id THEN "accept"
    ELSE "deny"

\* `for ws, info in clients.items(): if info['id'] == target_id and
\* info['room'] == room`: the sessions the loop can stop at, 0 for none.
\* The loop stops at the first match in the dict's insertion order; a
\* session's place in that order is the time of its first register, which
\* nothing else depends on, so every match is the first one in some run.
Find(c, target_id) ==
    LET hits == IF c \in DOMAIN clients
                THEN {x \in DOMAIN clients :
                         /\ clients[x].id = target_id
                         /\ clients[x].room = clients[c].room}
                ELSE {}
    IN  IF hits = {} THEN {0} ELSE hits

\* the frame of a moderator action that found t
ModFrame(c, type, target_id, newUsername, t) ==
    [Fr([Msg(type) EXCEPT !.targetId = target_id,
                          !.newUsername = newUsername])
     EXCEPT !.room = clients[c].room, !.tgt = t,
            !.username = IF t = 0 THEN None ELSE clients[t].username]

\* kick-user and ban-user from "Find and disconnect the target user"
Disconnect(c, fr, w, notice, text) ==
    IF fr.tgt = 0 THEN Suspend(c, "ret", fr, w, <<>>)
    ELSE SendThen(c, [Ev(fr.tgt, notice) EXCEPT !.message = text],
                  "closing", fr, w, <<>>)

\* 'kick-user'
KickUser(c, target_id, t) ==
    LET gate == ModGate(c)
        raw == Fr([Msg("kick-user") EXCEPT !.targetId = target_id])
    IN
    /\ Recv(c)
    /\ t \in Find(c, target_id)
    /\ IF gate = "KeyError" THEN Raise(c, "KeyError", raw, World, <<>>)
       ELSE IF gate = "deny"
       THEN SendLast(c, ErrorEv(c, "Only moderator can kick users"),
                     raw, World, <<>>)
       ELSE Disconnect(c, ModFrame(c, "kick-user", target_id, None, t), World,
                       "kicked", "You have been kicked from the room")
    /\ Counted

\* ban-user adding to the banned set only a target it found in the room
BanUserIfPresent(c, target_id, t) ==
    LET gate == ModGate(c)
        raw == Fr([Msg("ban-user") EXCEPT !.targetId = target_id])
    IN
    /\ Recv(c)
    /\ t \in Find(c, target_id)
    /\ IF gate = "KeyError" THEN Raise(c, "KeyError", raw, World, <<>>)
       ELSE IF gate = "deny"
       THEN SendLast(c, ErrorEv(c, "Only moderator can ban users"),
                     raw, World, <<>>)
       ELSE Disconnect(c, ModFrame(c, "ban-user", target_id, None, t),
                       IF t = 0 THEN World
                       ELSE [World EXCEPT !.rooms[clients[c].room].banned =
                                              @ \cup {target_id}],
                       "banned", "You have been banned from this room")
    /\ Counted

\* 'ban-user'
BanUser(c, target_id, t) ==
    LET gate == ModGate(c)
        raw == Fr([Msg("ban-user") EXCEPT !.targetId = target_id])
    IN
    /\ Recv(c)
    /\ t \in Find(c, target_id)
    /\ IF gate = "KeyError" THEN Raise(c, "KeyError", raw, World, <<>>)
       ELSE IF gate = "deny"
       THEN SendLast(c, ErrorEv(c, "Only moderator can ban users"),
                     raw, World, <<>>)
       ELSE Disconnect(c, ModFrame(c, "ban-user", target_id, None, t),
                       [World EXCEPT !.rooms[clients[c].room].banned =
                                         @ \cup {target_id}],
                       "banned", "You have been banned from this room")
    /\ Counted

\* kick-user, ban-user: `await ws.close()`, then the handler returns
CloseTarget(c) ==
    /\ At(c, "closing")
    /\ open' = [open EXCEPT ![frame[c].tgt] = FALSE]
    /\ Suspend(c, "ret", frame[c], World,
               sent[c] \o <<[Ev(frame[c].tgt, "close") EXCEPT !.ok = TRUE]>>)
    /\ nmsgs' = nmsgs

\* 'promote-moderator'
PromoteModerator(c, target_id, t) ==
    LET gate == ModGate(c)
        raw == Fr([Msg("promote-moderator") EXCEPT !.targetId = target_id])
        fr == ModFrame(c, "promote-moderator", target_id, None, t)
    IN
    /\ Recv(c)
    /\ t \in Find(c, target_id)
    /\ IF gate = "KeyError" THEN Raise(c, "KeyError", raw, World, <<>>)
       ELSE IF gate = "deny"
       THEN SendLast(c, ErrorEv(c, "Only moderator can promote users"),
                     raw, World, <<>>)
       ELSE IF fr.tgt = 0 THEN Suspend(c, "ret", fr, World, <<>>)
       ELSE SendThen(c, Ev(fr.tgt, "you-are-moderator"), "sent1", fr, World,
                     <<>>)
    /\ Counted

\* 'moderator-change-name'
ModeratorChangeName(c, target_id, newUsername, t) ==
    LET gate == ModGate(c)
        raw == Fr([Msg("moderator-change-name") EXCEPT
                      !.targetId = target_id, !.newUsername = newUsername])
        new_username == Strip(newUsername)
        fr0 == ModFrame(c, "moderator-change-name", target_id, newUsername, t)
        fr == [fr0 EXCEPT !.new_username = new_username,
                          !.old_username = fr0.username]
    IN
    /\ Recv(c)
    /\ t \in Find(c, target_id)
    /\ IF gate = "KeyError" THEN Raise(c, "KeyError", raw, World, <<>>)
       ELSE IF gate = "deny"
       THEN SendLast(c, ErrorEv(c, "Only moderator can change user names"),
                     raw, World, <<>>)
       ELSE IF new_username = "" \/ fr.tgt = 0
       THEN Suspend(c, "ret", fr, World, <<>>)
       ELSE SendThen(c, [Ev(fr.tgt, "name-changed-by-moderator") EXCEPT
                            !.newUsername = new_username],
                     "sent1", fr,
                     [World EXCEPT !.clients[fr.tgt].username = new_username],
                     <<>>)
    /\ Counted

\* change-name taking the new name as it came, untrimmed
ChangeNameUntrimmed(c, newUsername) ==
    LET raw == Fr([Msg("change-name") EXCEPT !.newUsername = newUsername])
        new_username == IF newUsername = None THEN "" ELSE newUsername
    IN
    /\ Recv(c)
    /\ IF c \notin DOMAIN clients THEN Raise(c, "KeyError", raw, World, <<>>)
       ELSE LET room == clients[c].room
                fr == [raw EXCEPT !.room = room,
                                  !.client_id = clients[c].id,
                                  !.old_username = clients[c].username,
                                  !.new_username = new_username]
            IN  IF new_username = "" \/ ~Truthy(room)
                THEN Suspend(c, "ret", fr, World, <<>>)
                ELSE FinalBroadcast(c, fr,
                         [World EXCEPT !.clients[c].username = new_username],
                         <<>>)
    /\ Counted

\* 'change-name'
ChangeName(c, newUsername) ==
    LET raw == Fr([Msg("change-name") EXCEPT !.newUsername = newUsername])
        new_username == Strip(newUsername)
    IN
    /\ Recv(c)
    /\ IF c \notin DOMAIN clients THEN Raise(c, "KeyError", raw, World, <<>>)
       ELSE LET room == clients[c].room
                fr == [raw EXCEPT !.room = room,
                                  !.client_id = clients[c].id,
                                  !.old_username = clients[c].username,
                                  !.new_username = new_username]
            IN  IF new_username = "" \/ ~Truthy(room)
                THEN Suspend(c, "ret", fr, World, <<>>)
                ELSE FinalBroadcast(c, fr,
                         [World EXCEPT !.clients[c].username = new_username],
                         <<>>)
    /\ Counted

\* -------------------------------------------- chat and media-state messages
\* the frame of a chat-message, video-state or audio-state; data is the
\* message text, or the videoEnabled/audioEnabled field as JSON text (None
\* when the message has no such field)
RoomFrame(c, type, data) ==
    LET raw == Fr([Msg(type) EXCEPT !.data = data]) IN
    IF c \in DOMAIN clients
    THEN [raw EXCEPT !.room = clients[c].room,
                     !.client_id = clients[c].id,
                     !.username = clients[c].username]
    ELSE raw

\* the chat broadcast with the sender left out
ChatMessageToOthers(c, message) ==
    LET fr == RoomFrame(c, "chat-message", message) IN
    /\ Recv(c)
    /\ IF c \notin DOMAIN clients THEN Raise(c, "KeyError", fr, World, <<>>)
       ELSE IF ~Truthy(fr.room) THEN Suspend(c, "ret", fr, World, <<>>)
       ELSE LET recips == Recipients(World, fr.room, c) IN
            IF recips # {}
            THEN Suspend(c, "fin_bcast", fr, World,
                         Bcast(recips, FinalEvent(c, fr, World)))
            ELSE IrcNotice(c, fr, World, <<>>)
    /\ Counted

\* 'chat-message': broadcast to the room, then send_message to the bridge
ChatMessage(c, message) ==
    LET fr == RoomFrame(c, "chat-message", message) IN
    /\ Recv(c)
    /\ IF c \notin DOMAIN clients THEN Raise(c, "KeyError", fr, World, <<>>)
       ELSE IF ~Truthy(fr.room) THEN Suspend(c, "ret", fr, World, <<>>)
       ELSE FinalBroadcast(c, fr, World, <<>>)
    /\ Counted

\* 'video-state', 'audio-state': broadcast to the room but the sender
MediaState(c, type, enabled) ==
    LET fr == RoomFrame(c, type, enabled) IN
    /\ Recv(c)
    /\ IF c \notin DOMAIN clients THEN Raise(c, "KeyError", fr, World, <<>>)
       ELSE IF ~Truthy(fr.room) THEN Suspend(c, "ret", fr, World, <<>>)
       ELSE FinalBroadcast(c, fr, World, <<>>)
    /\ Counted

\* ------------------------------------------------- messages from the bridge
\* the callback's event without the tag of its origin
InboundEventUntagged(nick, message) ==
    [Ev(IrcPeer, "chat-message") EXCEPT !.username = nick,
                                        !.message = message]

\* irc_message_callback's event
InboundEvent(nick, message) ==
    [Ev(IrcPeer, "chat-message") EXCEPT !.username = nick \o " (IRC)",
                                        !.message = message]

\* _handle_privmsg for a PRIVMSG of nick on channel: room_id is the first
\* room of room_channels mapped to the channel (any of them, in some run);
\* its callback broadcasts to the room with nobody left out.
IrcInbound(channel, nick, message, room_id) ==
    /\ Yielded
    /\ irc_bridge = "connected"
    /\ room_id \in DOMAIN room_channels
    /\ room_channels[room_id] = channel
    /\ inbound' =
          [room |-> room_id, nick |-> nick,
           evs |-> IF room_id \in message_callbacks
                   THEN Bcast(Recipients(World, room_id, 0),
                              InboundEvent(nick, message))
                   ELSE <<>>]
    /\ nmsgs' = nmsgs + 1
    /\ UNCHANGED <<clients, rooms, irc_bridge, room_channels,
                   message_callbacks, open, pc, frame, sent>>

\* ------------------------------------------------------------- relaying
\* relay_to_peer's `for websocket, info in clients.items(): if info['id'] ==
\* target_id`: the sessions the loop can stop at (see Find), 0 for none
FindPeer(target_id) ==
    LET hits == {x \in DOMAIN clients : clients[x].id = target_id}
    IN  IF hits = {} THEN {0} ELSE hits

\* relaying with the senderId of the inbound envelope
RelayInboundSender(c, type, target_id, sender_id, data, t) ==
    LET fr == Fr([Msg(type) EXCEPT !.targetId = target_id,
                                   !.senderId = sender_id, !.data = data])
        ev == [Ev(t, type) EXCEPT !.senderId = sender_id, !.data = data]
    IN
    /\ Recv(c)
    /\ t \in FindPeer(target_id)
    /\ IF c \notin DOMAIN clients THEN Raise(c, "KeyError", fr, World, <<>>)
       ELSE IF t = 0 THEN Suspend(c, "ret", fr, World, <<>>)
       ELSE SendLast(c, ev, [fr EXCEPT !.tgt = t], World, <<>>)
    /\ Counted

\* relaying that tells the sender of a miss
RelayReportsMiss(c, type, target_id, sender_id, data, t) ==
    LET fr == Fr([Msg(type) EXCEPT !.targetId = target_id,
                                   !.senderId = sender_id, !.data = data])
        ev == [Ev(t, type) EXCEPT !.senderId = clients[c].id, !.data = data]
    IN
    /\ Recv(c)
    /\ t \in FindPeer(target_id)
    /\ IF c \notin DOMAIN clients THEN Raise(c, "KeyError", fr, World, <<>>)
       ELSE IF t = 0
       THEN SendLast(c, ErrorEv(c, "Peer not found"), fr, World, <<>>)
       ELSE SendLast(c, ev, [fr EXCEPT !.tgt = t], World, <<>>)
    /\ Counted

\* 'offer', 'answer', 'ice-candidate'
Relay(c, type, target_id, sender_id, data, t) ==
    LET fr == Fr([Msg(type) EXCEPT !.targetId = target_id,
                                   !.senderId = sender_id, !.data = data])
        ev == [Ev(t, type) EXCEPT !.senderId = clients[c].id, !.data = data]
    IN
    /\ Recv(c)
    /\ t \in FindPeer(target_id)
    /\ IF c \notin DOMAIN clients THEN Raise(c, "KeyError", fr, World, <<>>)
       ELSE IF t = 0 THEN Suspend(c, "ret", fr, World, <<>>)
       ELSE SendLast(c, ev, [fr EXCEPT !.tgt = t], World, <<>>)
    /\ Counted

\* an unknown type answered with an error event
UnknownTypeReplies(c) ==
    /\ Recv(c)
    /\ SendLast(c, ErrorEv(c, "Unknown message type"), Fr(Msg("bogus")),
                World, <<>>)
    /\ Counted

\* a type outside the catalogue: `else: logger.warning(...)`
UnknownType(c) ==
    /\ Recv(c)
    /\ Suspend(c, "ret", Fr(Msg("bogus")), World, <<>>)
    /\ Counted

\* a message that is no JSON text (JSONDecodeError) or no JSON object
\* (AttributeError at data.get): caught and logged
InvalidJson(c, exc) ==
    /\ Recv(c)
    /\ Raise(c, exc, Fr(Msg("invalid")), World, <<>>)
    /\ Counted

\* ------------------------------------------------------------------ runs
Init ==
    /\ clients = <<>>
    /\ rooms = <<>>
    /\ irc_bridge = None
    /\ room_channels = <<>>
    /\ message_callbacks = {}
    /\ open = [c \in Conns |-> TRUE]
    /\ pc = [c \in Conns |-> "idle"]
    /\ frame = [c \in Conns |-> NoFrame]
    /\ sent = [c \in Conns |-> <<>>]
    /\ nmsgs = 0
    /\ inbound = NoDelivery

\* what the peers of the model send
RoomIds == {"r1", "r2"}
ClientIds == {"a", "b"}
Passwords == {None, "", "p", "q"}

\* the clientId a connection registers with in the runs from the empty
\* server: 2 has its own, the others share one
ClientIdOf(c) == IF c = 2 THEN "b" ELSE "a"

\* the peers have sent fewer than n messages
Budget(n) == nmsgs < n

\* the steps that continue a handler or a cleanup (no IRC bridge in use)
Continue(c) ==
    \/ Return(c)
    \/ LeaveBcastDone(c)
    \/ DirectSendDone(c)
    \/ BroadcastDone(c)
    \/ Unregister(c)
    \/ UnregBcastDone(c)
    \/ TaskEnd(c)

\* register, create-room, join-room, leave-room and disconnects
RoomNext ==
    \E c \in Conns :
        \/ Budget(MaxMsgs) /\ Register(c, ClientIdOf(c), None)
        \/ \E r \in RoomIds, p \in {None, "p"} :
              Budget(MaxMsgs) /\ CreateRoom(c, r, p, None)
        \/ \E r \in RoomIds, p \in {None, "p"} :
              Budget(MaxMsgs) /\ JoinRoomMsg(c, r, p)
        \/ Budget(MaxMsgs) /\ LeaveRoomMsg(c)
        \/ ClientClose(c)
        \/ Continue(c)

Spec == Init /\ [][RoomNext]_vars

\* The server after 1 registered as "a" and created r1 with password "p" and
\* 2 registered as "b"; 3 has connected and not registered.
Session(id, room) == [id |-> id, room |-> room, username |-> DefaultName(id)]

ModInit ==
    /\ clients = (1 :> Session("a", "r1")) @@ (2 :> Session("b", None))
    /\ rooms = ("r1" :> [NewRoom("p", None, "a") EXCEPT !.users = {1}])
    /\ irc_bridge = None
    /\ room_channels = <<>>
    /\ message_callbacks = {}
    /\ open = [c \in Conns |-> TRUE]
    /\ pc = [c \in Conns |-> "idle"]
    /\ frame = [c \in Conns |-> NoFrame]
    /\ sent = [c \in Conns |-> <<>>]
    /\ nmsgs = 0
    /\ inbound = NoDelivery

\* one room under its moderator: joins, leaves, moderator actions, disconnects
ModNext ==
    \E c \in Conns :
        \/ \E id \in ClientIds :
              Budget(ModMsgs) /\ c = 3 /\ Register(c, id, None)
        \/ \E p \in {"p", "q"} :
              Budget(ModMsgs) /\ CreateRoom(c, "r1", p, None)
        \/ \E p \in Passwords :
              Budget(ModMsgs) /\ JoinRoomMsg(c, "r1", p)
        \/ Budget(ModMsgs) /\ LeaveRoomMsg(c)
        \/ \E id \in ClientIds, t \in 0..NumConns :
              Budget(ModMsgs) /\ KickUser(c, id, t)
        \/ \E id \in ClientIds, t \in 0..NumConns :
              Budget(ModMsgs) /\ BanUser(c, id, t)
        \/ \E id \in ClientIds, t \in 0..NumConns :
              Budget(ModMsgs) /\ PromoteModerator(c, id, t)
        \/ \E id \in ClientIds, t \in 0..NumConns :
              Budget(ModMsgs) /\ ModeratorChangeName(c, id, "n1", t)
        \/ CloseTarget(c)
        \/ ClientClose(c)
        \/ Continue(c)

ModSpec == ModInit /\ [][ModNext]_vars

RelayTypes == {"offer", "answer", "ice-candidate"}

\* one room under its moderator: relayed envelopes, messages that are not
\* understood, joins and disconnects
MsgNext ==
    \E c \in Conns :
        \/ \E id \in ClientIds :
              Budget(MsgMsgs) /\ c = 3 /\ Register(c, id, None)
        \/ Budget(MsgMsgs) /\ JoinRoomMsg(c, "r1", "p")
        \/ \E type \in RelayTypes, id \in ClientIds \cup {"x"},
              data \in {None, "sdp"}, t \in 0..NumConns :
              Budget(MsgMsgs) /\ Relay(c, type, id, "zz", data, t)
        \/ Budget(MsgMsgs) /\ UnknownType(c)
        \/ \E exc \in {"JSONDecodeError", "AttributeError"} :
              Budget(MsgMsgs) /\ InvalidJson(c, exc)
        \/ ClientClose(c)
        \/ Return(c)
        \/ DirectSendDone(c)
        \/ BroadcastDone(c)
        \/ Unregister(c)
        \/ UnregBcastDone(c)
        \/ TaskEnd(c)

MsgSpec == ModInit /\ [][MsgNext]_vars

\* ---------------------------------------------------------------- claims
\* the task of c takes a message of this type in the step
Receives(c, type) ==
    pc[c] = "idle" /\ pc'[c] # "idle" /\ frame'[c].msg.type = type

\* evs is one event to c of this type with this text
OneReply(evs, c, type, text) ==
    /\ Len(evs) = 1
    /\ evs[1].to = c
    /\ evs[1].type = type
    /\ evs[1].message = text

\* how many events of a type the handler of c has sent to x
Count(c, x, type) ==
    Cardinality({i \in DOMAIN sent[c] :
                    sent[c][i].to = x /\ sent[c][i].type = type})

BannedText == "You have been banned from this room"

\* C1: in every reachable state, the member set of every room is exactly
\* the set of connections whose session names that room as its current room.
C1_MembersAreSessionsInRoom ==
    \A r \in DOMAIN rooms :
        rooms[r].users = {c \in DOMAIN clients : clients[c].room = r}

\* C2: no connection is in the member sets of two rooms at the same time.
C2_InAtMostOneRoom ==
    \A c \in Conns : Cardinality({r \in DOMAIN rooms : c \in rooms[r].users}) <= 1

\* C3: whenever no handler and no disconnect cleanup is in progress, every
\* room of the directory has at least one member.
C3_NoEmptyRoomAtRest ==
    (\A c \in Conns : pc[c] \in {"idle", "gone"})
        => \A r \in DOMAIN rooms : rooms[r].users # {}

\* C4: a ban-user the moderator of r sends for a client id X that no member of
\* r is registered under puts X in r's banned set; X stays there for as long
\* as r exists; and every join-room to r that a session registered as X sends
\* while X is there is answered with the banned error alone and adds nobody.
C4_BanOfAbsentBlocksJoin ==
    [][\A c \in Conns, r \in DOMAIN rooms, X \in ClientIds :
         /\ ( /\ Receives(c, "ban-user")
              /\ frame'[c].msg.targetId = X
              /\ ModGate(c) = "accept"
              /\ clients[c].room = r
              /\ \A x \in rooms[r].users \cap DOMAIN clients :
                    clients[x].id # X )
            => (r \in DOMAIN rooms' /\ X \in rooms'[r].banned)
         /\ (X \in rooms[r].banned /\ r \in DOMAIN rooms')
            => X \in rooms'[r].banned
         /\ ( /\ X \in rooms[r].banned
              /\ c \in DOMAIN clients
              /\ clients[c].id = X
              /\ Receives(c, "join-room")
              /\ frame'[c].msg.roomId = r )
            => /\ pc'[c] = "ret"
               /\ OneReply(sent'[c], c, "error", BannedText)
               /\ rooms' = rooms
               /\ clients' = clients
      ]_vars

\* C4's case: a join-room of a session whose client id was banned while no
\* member of the room had it has been answered with the banned error.
C4_Witness ==
    \E c \in Conns :
        /\ pc[c] = "ret"
        /\ frame[c].msg.type = "join-room"
        /\ OneReply(sent[c], c, "error", BannedText)
        /\ c \in DOMAIN clients
        /\ frame[c].msg.roomId \in DOMAIN rooms
        /\ \A x \in rooms[frame[c].msg.roomId].users \cap DOMAIN clients :
              clients[x].id # clients[c].id

\* C5: a join-room to a room with a password, sent by a session whose client
\* id is in the room's banned set, is answered with the banned error and
\* with nothing else, whether its password is absent, empty, wrong or right.
C5_BannedBeforePassword ==
    [][\A c \in Conns, r \in DOMAIN rooms :
         ( /\ Receives(c, "join-room")
           /\ frame'[c].msg.roomId = r
           /\ c \in DOMAIN clients
           /\ clients[c].id \in rooms[r].banned
           /\ rooms[r].password # None )
         => /\ OneReply(sent'[c], c, "error", BannedText)
            /\ \A i \in DOMAIN sent'[c] :
                  /\ sent'[c][i].type # "password-required"
                  /\ sent'[c][i].message # "Incorrect password"
      ]_vars

\* C5's case: a banned session that sent the right password got the banned
\* error.
C5_Witness ==
    \E c \in Conns :
        /\ pc[c] = "ret"
        /\ frame[c].msg.type = "join-room"
        /\ frame[c].msg.roomId \in DOMAIN rooms
        /\ rooms[frame[c].msg.roomId].password
              = hash_password(frame[c].msg.password)
        /\ OneReply(sent[c], c, "error", BannedText)

\* the session of c is registered, not banned from r, and r has a password
C6_Case(c, r) ==
    /\ Receives(c, "join-room")
    /\ frame'[c].msg.roomId = r
    /\ c \in DOMAIN clients
    /\ clients[c].id \notin rooms[r].banned
    /\ rooms[r].password # None

C6_PasswordRequired(evs, c, r) ==
    OneReply(evs, c, "password-required", None) /\ evs[1].roomId = r

\* C6 as claimed: without a password the reply is one password-required with
\* the room id; with any password of another digest it is the
\* incorrect-password error; neither is the room-does-not-exist error and
\* the session is not added.
C6_AsClaimed ==
    [][\A c \in Conns, r \in DOMAIN rooms :
         C6_Case(c, r) =>
            LET pw == frame'[c].msg.password IN
            /\ pw = None =>
                  C6_PasswordRequired(sent'[c], c, r) /\ rooms' = rooms
            /\ (pw # None /\ hash_password(pw) # rooms[r].password) =>
                  /\ OneReply(sent'[c], c, "error", "Incorrect password")
                  /\ rooms' = rooms
      ]_vars

\* C6 amended: without a password or with an empty one the reply is one
\* password-required with the room id; with a non-empty password of another
\* digest it is the incorrect-password error; the two differ from each other
\* and from the room-does-not-exist error, and the session is not added.
C6_PasswordReplies ==
    [][\A c \in Conns, r \in DOMAIN rooms :
         C6_Case(c, r) =>
            LET pw == frame'[c].msg.password IN
            /\ ~Truthy(pw) =>
                  /\ C6_PasswordRequired(sent'[c], c, r)
                  /\ rooms' = rooms /\ clients' = clients
            /\ (Truthy(pw) /\ hash_password(pw) # rooms[r].password) =>
                  /\ OneReply(sent'[c], c, "error", "Incorrect password")
                  /\ rooms' = rooms /\ clients' = clients
            /\ ~OneReply(sent'[c], c, "error", "Room does not exist")
      ]_vars

\* C6's case: a registered session that is not banned sent a wrong password
\* to a room with a password and got the incorrect-password error.
C6_Witness ==
    \E c \in Conns :
        /\ pc[c] = "ret"
        /\ frame[c].msg.type = "join-room"
        /\ frame[c].msg.password = "q"
        /\ OneReply(sent[c], c, "error", "Incorrect password")
        /\ c \notin rooms[frame[c].msg.roomId].users

\* C7: no step of the handler of a create-room for a room id that exists
\* changes that room's password digest, moderator id, chat channel or banned
\* set (or removes the room).
C7_CreateExistingKeepsRoom ==
    [][\A c \in Conns, r \in DOMAIN rooms :
         ( /\ pc'[c] # pc[c]
           /\ frame'[c].msg.type = "create-room"
           /\ frame'[c].msg.roomId = r )
         => /\ r \in DOMAIN rooms'
            /\ rooms'[r].password = rooms[r].password
            /\ rooms'[r].moderator = rooms[r].moderator
            /\ rooms'[r].irc_channel = rooms[r].irc_channel
            /\ rooms'[r].banned = rooms[r].banned
      ]_vars

\* the session of c is the moderator of the room it is in
IsModerator(c) ==
    /\ c \in DOMAIN clients
    /\ clients[c].room \in DOMAIN rooms
    /\ rooms[clients[c].room].moderator = clients[c].id

ModTypes ==
    {"kick-user", "ban-user", "promote-moderator", "moderator-change-name"}

\* C8: a kick-user, ban-user, promote-moderator or moderator-change-name of
\* a connection that is not the moderator of its current room is answered
\* with exactly one error event to that connection, changes no room and no
\* session, and closes no connection.
C8_NonModeratorRejected ==
    [][\A c \in Conns :
         ( /\ \E type \in ModTypes : Receives(c, type)
           /\ ~IsModerator(c) )
         => /\ pc'[c] = "ret"
            /\ Len(sent'[c]) = 1
            /\ sent'[c][1].to = c
            /\ sent'[c][1].type = "error"
            /\ rooms' = rooms
            /\ clients' = clients
            /\ open' = open
      ]_vars

\* C9: when the handler of a promote-moderator that the moderator sent for a
\* member of its room has returned, the room's moderator id is the target's.
C9_PromoteSetsModerator ==
    \A c \in Conns :
        ( /\ pc[c] = "ret"
          /\ frame[c].msg.type = "promote-moderator"
          /\ frame[c].tgt # 0
          /\ frame[c].exc = None
          /\ frame[c].room \in DOMAIN rooms )
        => rooms[frame[c].room].moderator = frame[c].msg.targetId

\* C10: when the handler of a join-room that passed all checks has returned
\* (the joiner's websocket still open), it has sent the joiner exactly one
\* room-joined, one user-joined with the joiner's client id to each session
\* of that reply's users list, and no user-joined to the joiner.
C10_JoinReplies ==
    \A c \in Conns :
        ( /\ pc[c] = "ret"
          /\ frame[c].msg.type = "join-room"
          /\ frame[c].caller = "join_room"
          /\ frame[c].exc # "ConnectionClosed" )
        => /\ Count(c, c, "room-joined") = 1
           /\ Count(c, c, "user-joined") = 0
           /\ \A i \in DOMAIN sent[c] :
                 sent[c][i].type = "room-joined" =>
                    \A u \in sent[c][i].users :
                       Count(c, u.ws, "user-joined") = 1

\* The server after 1 registered as "a" and 2 as "b", before any room.
IrcInit ==
    /\ clients = (1 :> Session("a", None)) @@ (2 :> Session("b", None))
    /\ rooms = <<>>
    /\ irc_bridge = None
    /\ room_channels = <<>>
    /\ message_callbacks = {}
    /\ open = [c \in Conns |-> TRUE]
    /\ pc = [c \in Conns |-> "idle"]
    /\ frame = [c \in Conns |-> NoFrame]
    /\ sent = [c \in Conns |-> <<>>]
    /\ nmsgs = 0
    /\ inbound = NoDelivery

\* a room bound to an IRC channel: its creation, joins, leaves and
\* disconnects; every write to the bridge's socket drains or raises
IrcNext ==
    \E c \in Conns :
        \/ Budget(IrcMsgs) /\ CreateRoom(c, "r1", None, "chan")
        \/ Budget(IrcMsgs) /\ JoinRoomMsg(c, "r1", None)
        \/ Budget(IrcMsgs) /\ LeaveRoomMsg(c)
        \/ ClientClose(c)
        \/ Continue(c)
        \/ \E ok \in BOOLEAN : CreateInitDone(c, ok)
        \/ \E ok \in BOOLEAN : CreateJoinDone(c, ok)
        \/ \E ok \in BOOLEAN : IrcNoticeDone(c, ok)
        \/ \E ok \in BOOLEAN : LeavePartDone(c, ok)
        \/ \E ok \in BOOLEAN : UnregNoticeDone(c, ok)
        \/ \E ok \in BOOLEAN : UnregPartDone(c, ok)

IrcSpec == IrcInit /\ [][IrcNext]_vars

\* The server after 1 registered as "a" and created r1 and 2 registered as
\* "b" and joined it; 3 has connected and not registered.
BanInit ==
    /\ clients = (1 :> Session("a", "r1")) @@ (2 :> Session("b", "r1"))
    /\ rooms = ("r1" :> [NewRoom(None, None, "a") EXCEPT !.users = {1, 2}])
    /\ irc_bridge = None
    /\ room_channels = <<>>
    /\ message_callbacks = {}
    /\ open = [c \in Conns |-> TRUE]
    /\ pc = [c \in Conns |-> "idle"]
    /\ frame = [c \in Conns |-> NoFrame]
    /\ sent = [c \in Conns |-> <<>>]
    /\ nmsgs = 0
    /\ inbound = NoDelivery

\* a room with its moderator and a member: bans, registers, joins, disconnects
BanNext ==
    \E c \in Conns :
        \/ Budget(BanMsgs) /\ Register(c, ClientIdOf(c), None)
        \/ Budget(BanMsgs) /\ JoinRoomMsg(c, "r1", None)
        \/ \E id \in ClientIds, t \in 0..NumConns :
              Budget(BanMsgs) /\ BanUser(c, id, t)
        \/ CloseTarget(c)
        \/ ClientClose(c)
        \/ Continue(c)

\* the event loop runs every task that is ready
TaskStep(c) == Continue(c) \/ CloseTarget(c)

FairBanSpec ==
    /\ BanInit
    /\ [][BanNext]_vars
    /\ \A c \in Conns : WF_vars(TaskStep(c))

\* the task of c takes an offer, an answer or an ice-candidate in the step
ReceivesRelay(c) == \E type \in RelayTypes : Receives(c, type)

\* C14: an offer, answer or ice-candidate of a registered session for a
\* targetId some session is registered under sends exactly one event, to a
\* connection registered under the targetId: it has the type and the data of
\* the inbound envelope and the sender's registered clientId as senderId.
C14_RelayToPeer ==
    [][\A c \in Conns :
         ( /\ ReceivesRelay(c)
           /\ c \in DOMAIN clients
           /\ \E x \in DOMAIN clients :
                 clients[x].id = frame'[c].msg.targetId )
         => /\ pc'[c] = "ret"
            /\ Len(sent'[c]) = 1
            /\ sent'[c][1].to \in DOMAIN clients
            /\ clients[sent'[c][1].to].id = frame'[c].msg.targetId
            /\ sent'[c][1].type = frame'[c].msg.type
            /\ sent'[c][1].senderId = clients[c].id
            /\ sent'[c][1].data = frame'[c].msg.data
      ]_vars

\* C14's case: an envelope that carried data and a senderId other than its
\* sender's clientId has been relayed to a session of the target id.
C14_Witness ==
    \E c \in Conns :
        /\ pc[c] = "ret"
        /\ frame[c].msg.type \in RelayTypes
        /\ frame[c].msg.data = "sdp"
        /\ Len(sent[c]) = 1
        /\ sent[c][1].ok
        /\ sent[c][1].to # c
        /\ sent[c][1].senderId # frame[c].msg.senderId

\* C15: an offer, answer or ice-candidate of a registered session for a
\* targetId no session is registered under sends no event to anybody and
\* leaves the sessions and the rooms as they were.
C15_RelayMissIsSilent ==
    [][\A c \in Conns :
         ( /\ ReceivesRelay(c)
           /\ c \in DOMAIN clients
           /\ \A x \in DOMAIN clients :
                 clients[x].id # frame'[c].msg.targetId )
         => /\ pc'[c] = "ret"
            /\ sent'[c] = <<>>
            /\ clients' = clients
            /\ rooms' = rooms
      ]_vars

\* C15's case: the handler of an envelope for a client id of no session has
\* returned.
C15_Witness ==
    \E c \in Conns :
        /\ pc[c] = "ret"
        /\ frame[c].msg.type \in RelayTypes
        /\ c \in DOMAIN clients
        /\ \A x \in DOMAIN clients : clients[x].id # frame[c].msg.targetId
        /\ sent[c] = <<>>

\* C16: a message that does not parse as a record, or whose type is not in
\* the catalogue, sends no event, changes no session and no room, and leaves
\* its connection open with the task back at taking the next message.
C16_NotUnderstoodIsDropped ==
    [][\A c \in Conns :
         /\ (Receives(c, "bogus") \/ Receives(c, "invalid"))
            => /\ pc'[c] = "ret"
               /\ sent'[c] = <<>>
               /\ clients' = clients
               /\ rooms' = rooms
               /\ open' = open
         /\ ( /\ pc[c] = "ret"
              /\ frame[c].msg.type \in {"bogus", "invalid"}
              /\ pc'[c] # pc[c] )
            => /\ pc'[c] = "idle"
               /\ open' = open
               /\ clients' = clients
               /\ rooms' = rooms
      ]_vars

\* C16's case: the handler of a message of an unknown type has returned on
\* an open connection.
C16_Witness ==
    \E c \in Conns :
        /\ pc[c] = "ret"
        /\ frame[c].msg.type = "bogus"
        /\ open[c]
        /\ sent[c] = <<>>

\* the replies that reject a join_room
RejectTexts == {"Room does not exist", BannedText, "Incorrect password"}

IsRejection(e, c) ==
    /\ e.to = c
    /\ \/ e.type = "password-required"
       \/ e.type = "error" /\ e.message \in RejectTexts

C18_UnknownTargetIsAnError ==
    [][\A c \in Conns :
         ( /\ \E type \in ModTypes \ {"ban-user"} : Receives(c, type)
           /\ ModGate(c) = "accept"
           /\ Find(c, frame'[c].msg.targetId) = {0} )
         => /\ Len(sent'[c]) = 1
            /\ sent'[c][1].to = c
            /\ sent'[c][1].type = "error"
            /\ rooms' = rooms
            /\ clients' = clients
      ]_vars

BroadcastTypes ==
    {"user-left", "user-joined", "moderator-promoted", "name-changed"}

\* the places where a handler waits for its broadcast
BroadcastLabels == {"lv_bcast", "un_bcast", "fin_bcast"}

\* the events of a broadcast that the step adds to the log of c
Broadcast(c) ==
    {i \in DOMAIN sent'[c] :
        i > Len(sent[c]) /\ sent'[c][i].type \in BroadcastTypes}

\* C19: a room broadcast in which the send to some recipient fails is still
\* sent once to every member of the room that is not excluded; its handler
\* goes on to what follows the broadcast without an exception and has sent
\* no error event.
C19_FailedSendIsIsolated ==
    [][\A c \in Conns :
         (\E i \in Broadcast(c) : ~sent'[c][i].ok) =>
            LET one == CHOOSE i \in Broadcast(c) : TRUE
                left == sent'[c][one].type = "user-left"
                r == IF left THEN frame'[c].lroom ELSE frame'[c].room
                ex == IF sent'[c][one].type \in {"user-left", "user-joined"}
                      THEN c ELSE 0
            IN  /\ {sent'[c][i].to : i \in Broadcast(c)}
                      = {x \in rooms'[r].users :
                            x # ex /\ x \in DOMAIN clients'}
                /\ \A i, j \in Broadcast(c) :
                      sent'[c][i].to = sent'[c][j].to => i = j
                /\ pc'[c] \in BroadcastLabels
                /\ frame'[c].exc = None
                /\ \A i \in DOMAIN sent'[c] : sent'[c][i].type # "error"
      ]_vars

\* C19's case: a handler waits for a broadcast of which one send failed and
\* another did not.
C19_Witness ==
    \E c \in Conns :
        /\ pc[c] \in BroadcastLabels
        /\ \E i, j \in DOMAIN sent[c] :
              /\ sent[c][i].type \in BroadcastTypes
              /\ sent[c][j].type = sent[c][i].type
              /\ ~sent[c][i].ok
              /\ sent[c][j].ok

\* C12: when a member of a room with at least two members disconnects or
\* sends leave-room, every other member is sent exactly one user-left with
\* the departing clientId, the departing connection is sent none, and the
\* room stays with exactly the other members.
C12_DepartureIsAnnounced ==
    [][\A c \in Conns, r \in DOMAIN rooms :
         ( /\ Receives(c, "leave-room") \/ Receives(c, "disconnect")
           /\ c \in rooms[r].users
           /\ Cardinality(rooms[r].users) >= 2 )
         => /\ c \in DOMAIN clients
            /\ \A x \in rooms[r].users \ {c} :
                  Cardinality({i \in DOMAIN sent'[c] :
                                  /\ sent'[c][i].to = x
                                  /\ sent'[c][i].type = "user-left"
                                  /\ sent'[c][i].clientId = clients[c].id}) = 1
            /\ \A i \in DOMAIN sent'[c] :
                  sent'[c][i].type = "user-left" => sent'[c][i].to # c
            /\ r \in DOMAIN rooms'
            /\ rooms'[r].users = rooms[r].users \ {c}
      ]_vars

\* C20: once the disconnect cleanup of a connection has run, there is no
\* session for the connection and no room has it in its member set.
C20_CleanupRemovesSession ==
    \A c \in Conns :
        pc[c] \in {"done", "crashed", "gone"}
            => /\ c \notin DOMAIN clients
               /\ \A r \in DOMAIN rooms : c \notin rooms[r].users

\* the places where a task is inside IRCBridge.leave_channel
PartLabels == {"lv_part", "un_part"}

\* C13: when a room that is bound to a channel the connected bridge has
\* joined is deleted, leave_channel has been invoked for it by exactly one
\* task: the one that deletes it.
C13_LeaveChannelOnce ==
    [][\A r \in DOMAIN rooms :
         ( /\ r \notin DOMAIN rooms'
           /\ Truthy(rooms[r].irc_channel)
           /\ irc_bridge = "connected"
           /\ r \in DOMAIN room_channels )
         => Cardinality({c \in Conns : /\ pc[c] \in PartLabels
                                       /\ frame[c].lroom = r}) = 1
      ]_vars

\* the handler of c is about to close the websocket of B, which it found in
\* room r under the client id it banned
BanCloses(c, B, r) ==
    /\ pc[c] = "closing"
    /\ frame[c].msg.type = "ban-user"
    /\ frame[c].tgt = B
    /\ frame[c].room = r

\* C11: a ban-user of the moderator of r for the client id of a member B of
\* r puts the id in r's banned set; B's websocket is closed only after the
\* banned event was sent to it; B is eventually out of r's member set; and
\* a join-room to r of a session with a banned client id is answered with
\* the banned error and adds nobody.
C11_BanOfMember ==
    /\ [][\A c \in Conns, r \in DOMAIN rooms :
            /\ ( /\ Receives(c, "ban-user")
                 /\ ModGate(c) = "accept"
                 /\ clients[c].room = r
                 /\ frame'[c].tgt # 0 )
               => /\ r \in DOMAIN rooms'
                  /\ frame'[c].msg.targetId \in rooms'[r].banned
            /\ \A B \in Conns :
                  (BanCloses(c, B, r) /\ open[B] /\ ~open'[B])
                  => \E i \in DOMAIN sent[c] :
                        /\ sent[c][i].to = B
                        /\ sent[c][i].type = "banned"
                        /\ sent[c][i].ok
            /\ ( /\ Receives(c, "join-room")
                 /\ frame'[c].msg.roomId = r
                 /\ c \in DOMAIN clients
                 /\ clients[c].id \in rooms[r].banned )
               => /\ OneReply(sent'[c], c, "error", BannedText)
                  /\ rooms' = rooms
         ]_vars
    /\ \A B \in Conns, r \in RoomIds :
          (\E c \in Conns : BanCloses(c, B, r))
             ~> (r \notin DOMAIN rooms \/ B \notin rooms[r].users)

\* The server after 1 registered as "a" and created r1 with password "p", 2
\* registered as "b" and joined it, 3 registered as "x", and 1 banned "x".
ChurnInit ==
    /\ clients = (1 :> Session("a", "r1")) @@ (2 :> Session("b", "r1"))
                    @@ (3 :> Session("x", None))
    /\ rooms = ("r1" :> [NewRoom("p", None, "a") EXCEPT !.users = {1, 2},
                                                         !.banned = {"x"}])
    /\ irc_bridge = None
    /\ room_channels = <<>>
    /\ message_callbacks = {}
    /\ open = [c \in Conns |-> TRUE]
    /\ pc = [c \in Conns |-> "idle"]
    /\ frame = [c \in Conns |-> NoFrame]
    /\ sent = [c \in Conns |-> <<>>]
    /\ nmsgs = 0
    /\ inbound = NoDelivery

\* a room with a password and a banned id: its members leave and come back,
\* it is deleted and created again, its moderator bans
ChurnNext ==
    \E c \in Conns :
        \/ \E p \in {"p", "q"} :
              Budget(ChurnMsgs) /\ CreateRoom(c, "r1", p, None)
        \/ \E p \in {"p", "q"} :
              Budget(ChurnMsgs) /\ JoinRoomMsg(c, "r1", p)
        \/ Budget(ChurnMsgs) /\ LeaveRoomMsg(c)
        \/ \E id \in {"b", "x"}, t \in 0..NumConns :
              Budget(ChurnMsgs) /\ BanUser(c, id, t)
        \/ CloseTarget(c)
        \/ ClientClose(c)
        \/ Continue(c)

ChurnSpec == ChurnInit /\ [][ChurnNext]_vars

\* no handler and no disconnect cleanup is in progress
AtRest == \A c \in Conns : pc[c] \in {"idle", "gone"}

\* the handler of c has sent the banned error
RejectedAsBanned(c) ==
    \E i \in DOMAIN sent'[c] :
        sent'[c][i].type = "error" /\ sent'[c][i].message = BannedText

\* C21: the banned set of a room changes only by a ban-user while the room
\* exists, whoever joins or leaves; a room that is created starts with an
\* empty banned set, and no room without members is left with a banned set,
\* so that a join-room or create-room is rejected as banned only if the
\* room exists and its banned set holds the sender's client id.
C21_BansLiveWithRoom ==
    /\ [][\A r \in RoomIds :
            /\ ( /\ r \in DOMAIN rooms
                 /\ r \in DOMAIN rooms'
                 /\ \A c \in Conns : ~Receives(c, "ban-user") )
               => rooms'[r].banned = rooms[r].banned
            /\ (r \notin DOMAIN rooms /\ r \in DOMAIN rooms')
               => rooms'[r].banned = {}
            /\ \A c \in Conns :
                  ( /\ Receives(c, "join-room") \/ Receives(c, "create-room")
                    /\ frame'[c].msg.roomId = r
                    /\ c \in DOMAIN clients
                    /\ \/ r \notin DOMAIN rooms
                       \/ clients[c].id \notin rooms[r].banned )
                  => ~RejectedAsBanned(c)
         ]_vars
    /\ [](AtRest => \A r \in DOMAIN rooms :
                        rooms[r].users = {} => rooms[r].banned = {})

\* C21's case: the session registered as "x", the id banned from r1 at the
\* start, is a member of r1 after a handler of its own that sent it
\* room-joined: r1 was deleted and created again.
C21_Witness ==
    \E c \in Conns :
        /\ pc[c] = "ret"
        /\ c \in DOMAIN clients
        /\ clients[c].id = "x"
        /\ frame[c].msg.type \in {"join-room", "create-room"}
        /\ Count(c, c, "room-joined") = 1
        /\ "r1" \in DOMAIN rooms
        /\ c \in rooms["r1"].users
        /\ "x" \notin rooms["r1"].banned

\* C22: when send_message or leave_channel of the chat bridge fails in a
\* disconnect cleanup, the session is still removed from the registry; and
\* when it fails in a cleanup, a leave-room or a join, the room the session
\* left is not kept without members.
C22_BridgeFailureIsContained ==
    \A c \in Conns :
        /\ (pc[c] = "crashed" /\ frame[c].exc = "ConnectionError")
              => c \notin DOMAIN clients
        /\ ( /\ pc[c] \in {"crashed", "ret"}
             /\ frame[c].exc = "ConnectionError"
             /\ frame[c].lroom \in DOMAIN rooms )
              => rooms[frame[c].lroom].users # {}

\* the step puts c in the member set of r
Inserted(c, r) ==
    /\ r \in DOMAIN rooms'
    /\ c \in rooms'[r].users
    /\ r \in DOMAIN rooms => c \notin rooms[r].users

\* C23: no step of a join-room adds a session to the member set of a room
\* whose banned set holds the session's client id when the session is added.
C23_NoBannedInsertion ==
    [][\A c \in Conns, r \in RoomIds :
         (Inserted(c, r) /\ frame'[c].msg.type = "join-room")
            => /\ c \in DOMAIN clients'
               /\ clients'[c].id \notin rooms'[r].banned
      ]_vars

\* C24: a step of a join-room or create-room adds a session to the member
\* set of a room that has a password at that moment only if the password of
\* the request hashes to the digest the room has at that moment.
C24_NoInsertionWithoutPassword ==
    [][\A c \in Conns, r \in RoomIds :
         ( /\ Inserted(c, r)
           /\ frame'[c].msg.type \in {"join-room", "create-room"}
           /\ rooms'[r].password # None )
         => hash_password(frame'[c].msg.password) = rooms'[r].password
      ]_vars

\* C25: when the handler of a join-room that passed all checks and took its
\* session out of a prior room has returned (the joiner's websocket still
\* open), the session is a member of the target room and of no other room,
\* names the target as its room and has been sent one room-joined.
C25_RejoinEndsInTarget ==
    \A c \in Conns :
        ( /\ pc[c] = "ret"
          /\ frame[c].msg.type = "join-room"
          /\ frame[c].caller = "join_room"
          /\ frame[c].lroom # None
          /\ frame[c].exc # "ConnectionClosed" )
        => /\ frame[c].room \in DOMAIN rooms
           /\ \A r \in DOMAIN rooms :
                 c \in rooms[r].users <=> r = frame[c].room
           /\ c \in DOMAIN clients
           /\ clients[c].room = frame[c].room
           /\ Count(c, c, "room-joined") = 1

\* a room with its moderator and a member: kicks, registers, joins, disconnects
KickNext ==
    \E c \in Conns :
        \/ Budget(KickMsgs) /\ Register(c, ClientIdOf(c), None)
        \/ Budget(KickMsgs) /\ JoinRoomMsg(c, "r1", None)
        \/ \E id \in ClientIds, t \in 0..NumConns :
              Budget(KickMsgs) /\ KickUser(c, id, t)
        \/ CloseTarget(c)
        \/ ClientClose(c)
        \/ Continue(c)

FairKickSpec ==
    /\ BanInit
    /\ [][KickNext]_vars
    /\ \A c \in Conns : WF_vars(TaskStep(c))

\* the handler of c is about to close the websocket of T, which it found in
\* room r under the client id it kicks
KickCloses(c, T, r) ==
    /\ pc[c] = "closing"
    /\ frame[c].msg.type = "kick-user"
    /\ frame[c].tgt = T
    /\ frame[c].room = r

\* C26: a kick-user of the moderator of r for the client id of a member T of
\* r closes T's websocket only after the kicked event was sent to it; no
\* step of the moderator's handler changes a member set; a session of that
\* client id that is not in r is sent nothing and is not closed; and T is
\* eventually out of r's member set.
C26_KickOfMember ==
    /\ [][\A c \in Conns :
            /\ \A T \in Conns, r \in RoomIds :
                  (KickCloses(c, T, r) /\ open[T] /\ ~open'[T])
                  => \E i \in DOMAIN sent[c] :
                        /\ sent[c][i].to = T
                        /\ sent[c][i].type = "kicked"
                        /\ sent[c][i].ok
            /\ (pc'[c] # pc[c] /\ frame'[c].msg.type = "kick-user")
                  => rooms' = rooms
            /\ (Receives(c, "kick-user") /\ ModGate(c) = "accept")
                  => \A x \in DOMAIN clients :
                        ( /\ clients[x].id = frame'[c].msg.targetId
                          /\ clients[x].room # clients[c].room )
                        => /\ frame'[c].tgt # x
                           /\ \A i \in DOMAIN sent'[c] : sent'[c][i].to # x
         ]_vars
    /\ \A T \in Conns, r \in RoomIds :
          (\E c \in Conns : KickCloses(c, T, r))
             ~> (r \notin DOMAIN rooms \/ T \notin rooms[r].users)

\* room r is bound to a channel that the connected bridge has joined
ChatBound(r) ==
    /\ r \in DOMAIN rooms
    /\ Truthy(rooms[r].irc_channel)
    /\ irc_bridge = "connected"
    /\ r \in DOMAIN room_channels

\* the step ends, without an exception, the handler or the cleanup in which
\* c left room r
EndsDeparture(c, r) ==
    /\ pc[c] \notin {"ret", "done"}
    /\ pc'[c] \in {"ret", "done"}
    /\ frame'[c].msg.type \in {"leave-room", "join-room", "disconnect"}
    /\ frame'[c].lroom = r
    /\ frame'[c].exc = None

\* C27: a leave-room, a join-room that left a prior room, or a disconnect
\* cleanup that ends while the room its session left is bound to a channel
\* of the connected bridge has sent the bridge one notice for that room.
C27_DepartureIsNoticed ==
    [][\A c \in Conns, r \in RoomIds :
         (EndsDeparture(c, r) /\ ChatBound(r))
         => Cardinality({i \in DOMAIN sent'[c] :
                            /\ sent'[c][i].type = "send_message"
                            /\ sent'[c][i].roomId = r}) = 1
      ]_vars

\* In the runs from BanInit: connection 1, the moderator of r at the start,
\* has dropped and been cleaned up, and r is still the room it created (only
\* create-room gives a room a moderator, and these runs send none).
ModeratorDropped(r) ==
    /\ pc[1] \in {"done", "crashed", "gone"}
    /\ r \in DOMAIN rooms
    /\ rooms[r].moderator = "a"

\* C28: no step changes the moderator id of a room that stays, and once the
\* moderator's connection has dropped from a room, every kick-user,
\* ban-user, promote-moderator and moderator-change-name of a session in
\* that room is answered with one error event and changes nothing.
C28_OrphanedRoomIsUnmoderated ==
    [][\A r \in RoomIds :
         /\ (r \in DOMAIN rooms /\ r \in DOMAIN rooms')
               => rooms'[r].moderator = rooms[r].moderator
         /\ \A c \in Conns :
               ( /\ ModeratorDropped(r)
                 /\ \E type \in ModTypes : Receives(c, type)
                 /\ c \in DOMAIN clients
                 /\ clients[c].room = r )
               => /\ pc'[c] = "ret"
                  /\ Len(sent'[c]) = 1
                  /\ sent'[c][1].to = c
                  /\ sent'[c][1].type = "error"
                  /\ rooms' = rooms
                  /\ clients' = clients
                  /\ open' = open
      ]_vars

\* the names the peers ask for: none, blank, padded
NewNames == {None, " ", " n1 "}

\* a room with its moderator and a member: renamings, joins, leaves,
\* disconnects
NameNext ==
    \E c \in Conns :
        \/ \E id \in ClientIds :
              Budget(NameMsgs) /\ c = 3 /\ Register(c, id, None)
        \/ Budget(NameMsgs) /\ JoinRoomMsg(c, "r1", None)
        \/ Budget(NameMsgs) /\ LeaveRoomMsg(c)
        \/ \E nm \in NewNames : Budget(NameMsgs) /\ ChangeName(c, nm)
        \/ \E id \in ClientIds, nm \in {" ", " n1 "}, t \in 0..NumConns :
              Budget(NameMsgs) /\ ModeratorChangeName(c, id, nm, t)
        \/ ClientClose(c)
        \/ Continue(c)

NameSpec == BanInit /\ [][NameNext]_vars

\* the name-changed events for x that the step adds to the log of c
NameChanged(c, x) ==
    {i \in DOMAIN sent'[c] :
        /\ i > Len(sent[c])
        /\ sent'[c][i].type = "name-changed"
        /\ sent'[c][i].to = x}

\* C29: a moderator-change-name of the moderator of r with a non-empty name
\* for a member T of r sets T's username and sends T
\* name-changed-by-moderator first; the broadcast that follows sends every
\* member of r one name-changed with T's clientId, the old and the new name;
\* and no handler that changed a username returns without having issued
\* that broadcast.
C29_ModeratorRename ==
    [][\A c \in Conns :
         LET fr == frame'[c] IN
         /\ ( /\ Receives(c, "moderator-change-name")
              /\ ModGate(c) = "accept"
              /\ fr.tgt # 0
              /\ fr.new_username # "" )
            => /\ clients'[fr.tgt].username = fr.new_username
               /\ Len(sent'[c]) = 1
               /\ sent'[c][1].to = fr.tgt
               /\ sent'[c][1].type = "name-changed-by-moderator"
               /\ sent'[c][1].newUsername = fr.new_username
         /\ ( /\ pc[c] = "sent1"
              /\ pc'[c] # "sent1"
              /\ fr.msg.type = "moderator-change-name"
              /\ fr.room \in DOMAIN rooms )
            => \A x \in rooms[fr.room].users \cap DOMAIN clients :
                  /\ Cardinality(NameChanged(c, x)) = 1
                  /\ \A i \in NameChanged(c, x) :
                        /\ sent'[c][i].clientId = fr.msg.targetId
                        /\ sent'[c][i].oldUsername = fr.old_username
                        /\ sent'[c][i].newUsername = fr.new_username
         /\ ( /\ pc[c] # "ret"
              /\ pc'[c] = "ret"
              /\ fr.msg.type = "moderator-change-name"
              /\ fr.tgt # 0
              /\ fr.new_username # "" )
            => \E i \in DOMAIN sent'[c] : sent'[c][i].type = "name-changed"
      ]_vars

\* C30: a change-name with a name that is not empty once trimmed, of a
\* session that is in a room, sets the session's username to the trimmed
\* name and changes nothing else, sends every other member of the room one
\* name-changed with the session's clientId, the old and the new name, and
\* sends the session nothing; a change-name of a session in no room, or
\* with an absent or blank name, changes nothing and sends nothing.
C30_ChangeName ==
    [][\A c \in Conns :
         (Receives(c, "change-name") /\ c \in DOMAIN clients) =>
            LET new == Strip(frame'[c].msg.newUsername)
                old == clients[c].username
                r == clients[c].room
            IN  IF new # "" /\ Truthy(r)
                THEN /\ clients' = [clients EXCEPT ![c].username = new]
                     /\ rooms' = rooms
                     /\ \A i \in DOMAIN sent'[c] :
                           /\ sent'[c][i].type = "name-changed"
                           /\ sent'[c][i].to # c
                           /\ sent'[c][i].clientId = clients[c].id
                           /\ sent'[c][i].oldUsername = old
                           /\ sent'[c][i].newUsername = new
                     /\ r \in DOMAIN rooms =>
                           \A x \in (rooms[r].users \cap DOMAIN clients) \ {c} :
                              Cardinality(NameChanged(c, x)) = 1
                ELSE /\ clients' = clients
                     /\ rooms' = rooms
                     /\ sent'[c] = <<>>
                     /\ pc'[c] = "ret"
      ]_vars

\* C30's case: a member of a room with another member has changed its name
\* to a name that came padded with blanks, and the other member was sent
\* the trimmed name.
C30_Witness ==
    \E c \in Conns :
        /\ pc[c] = "fin_bcast"
        /\ frame[c].msg.type = "change-name"
        /\ frame[c].msg.newUsername = " n1 "
        /\ c \in DOMAIN clients
        /\ clients[c].username = "n1"
        /\ \E i \in DOMAIN sent[c] :
              /\ sent[c][i].type = "name-changed"
              /\ sent[c][i].to # c
              /\ sent[c][i].ok
              /\ sent[c][i].newUsername = "n1"

\* the room-joined events that the step adds to the log of c
RoomJoined(c) ==
    {i \in DOMAIN sent'[c] :
        i > Len(sent[c]) /\ sent'[c][i].type = "room-joined"}

\* C32: every room-joined reply carries the room's moderator id and says
\* isModerator exactly when the joiner's clientId is that id; the reply to
\* the create-room that created the room says isModerator and carries the
\* creator's clientId as moderatorId.
C32_IsModeratorReply ==
    [][\A c \in Conns : \A i \in RoomJoined(c) :
         LET e == sent'[c][i]
             r == e.roomId
         IN  /\ r \in DOMAIN rooms'
             /\ e.to = c
             /\ e.moderatorId = rooms'[r].moderator
             /\ e.isModerator <=> (clients'[c].id = rooms'[r].moderator)
             /\ (Receives(c, "create-room") /\ r \notin DOMAIN rooms)
                   => /\ e.isModerator
                      /\ e.moderatorId = clients[c].id
      ]_vars

\* C32's case: in a room that its second creator made, the creator has been
\* told it is the moderator and a joiner of another client id that it is
\* not, both with the creator's client id as moderatorId.
C32_Witness ==
    \E c, d \in Conns :
        /\ pc[c] = "sent1" /\ pc[d] = "sent1"
        /\ frame[c].msg.type = "create-room"
        /\ frame[d].msg.type = "join-room"
        /\ clients[c].id # "a"
        /\ clients[d].id # clients[c].id
        /\ \E i \in DOMAIN sent[c], j \in DOMAIN sent[d] :
              /\ sent[c][i].type = "room-joined"
              /\ sent[c][i].isModerator
              /\ sent[c][i].moderatorId = clients[c].id
              /\ sent[d][j].type = "room-joined"
              /\ ~sent[d][j].isModerator
              /\ sent[d][j].moderatorId = clients[c].id

\* C33: an offer, answer or ice-candidate is sent only to a member of the room
\* its sender is in; nothing is sent for a sender in no room, or to a session
\* of the target id that is in another room or in none.
C33_RelayStaysInRoom ==
    [][\A c \in Conns :
         (ReceivesRelay(c) /\ c \in DOMAIN clients)
         => \A i \in DOMAIN sent'[c] :
               LET x == sent'[c][i].to IN
               /\ Truthy(clients[c].room)
               /\ x \in DOMAIN clients
               /\ clients[x].room = clients[c].room
               /\ clients[c].room \in DOMAIN rooms
               /\ x \in rooms[clients[c].room].users
      ]_vars

\* the step answers the moderator action of c with the one error event and
\* changes nothing
ModRejected(c) ==
    /\ pc'[c] = "ret"
    /\ Len(sent'[c]) = 1
    /\ sent'[c][1].to = c
    /\ sent'[c][1].type = "error"
    /\ rooms' = rooms
    /\ clients' = clients
    /\ open' = open

\* C34: a kick-user, ban-user, promote-moderator or moderator-change-name of
\* a member of r1 is accepted only from connection 1, whose create-room made
\* the room that has moderator id "a"; from every other connection, whatever
\* client id it registered with, it is rejected.
C34_AuthorityIsTheCreatorsConnection ==
    [][\A c \in Conns :
         ( /\ \E type \in ModTypes : Receives(c, type)
           /\ c \in DOMAIN clients
           /\ clients[c].room = "r1"
           /\ "r1" \in DOMAIN rooms
           /\ rooms["r1"].moderator = "a"
           /\ c # 1 )
         => ModRejected(c)
      ]_vars

\* A room that a join-room made: 'b' joined r1 when no room had that id, so
\* r1 has no moderator id; connection 1 registered with a username and no
\* clientId and is in no room yet.
LazyInit ==
    /\ clients = (1 :> [id |-> None, room |-> None, username |-> "u1"])
                  @@ (2 :> Session("b", "r1"))
    /\ rooms = ("r1" :> [NewRoom(None, None, None) EXCEPT !.users = {2}])
    /\ irc_bridge = None
    /\ room_channels = <<>>
    /\ message_callbacks = {}
    /\ open = [c \in Conns |-> TRUE]
    /\ pc = [c \in Conns |-> "idle"]
    /\ frame = [c \in Conns |-> NoFrame]
    /\ sent = [c \in Conns |-> <<>>]
    /\ nmsgs = 0
    /\ inbound = NoDelivery

\* joins, leaves and moderator actions on the room nobody created
LazyNext ==
    \E c \in Conns :
        \/ Budget(LazyMsgs) /\ c = 3 /\ Register(c, None, "u3")
        \/ Budget(LazyMsgs) /\ JoinRoomMsg(c, "r1", None)
        \/ Budget(LazyMsgs) /\ LeaveRoomMsg(c)
        \/ \E id \in {"b", None}, t \in 0..NumConns :
              Budget(LazyMsgs) /\ KickUser(c, id, t)
        \/ \E id \in {"b", None}, t \in 0..NumConns :
              Budget(LazyMsgs) /\ BanUser(c, id, t)
        \/ \E id \in {"b", None}, t \in 0..NumConns :
              Budget(LazyMsgs) /\ PromoteModerator(c, id, t)
        \/ \E id \in {"b", None}, t \in 0..NumConns :
              Budget(LazyMsgs) /\ ModeratorChangeName(c, id, "n1", t)
        \/ CloseTarget(c)
        \/ ClientClose(c)
        \/ Continue(c)

LazySpec == LazyInit /\ [][LazyNext]_vars

\* C35: in a room that has no moderator id, every kick-user, ban-user,
\* promote-moderator and moderator-change-name of a member, whatever client
\* id the member registered with, is answered with the one error event and
\* changes nothing.
C35_LazyRoomHasNoModerator ==
    [][\A c \in Conns :
         ( /\ \E type \in ModTypes : Receives(c, type)
           /\ c \in DOMAIN clients
           /\ Truthy(clients[c].room)
           /\ clients[c].room \in DOMAIN rooms
           /\ c \in rooms[clients[c].room].users
           /\ rooms[clients[c].room].moderator = None )
         => ModRejected(c)
      ]_vars

\* C36: a step that deletes a room deletes it with no member in it: the only
\* websocket the member set can hold before the step is the one whose
\* handler takes the step and leaves in it.
C36_NoRoomDeletedUnderMembers ==
    [][\A r \in DOMAIN rooms :
         r \notin DOMAIN rooms'
         => \A x \in rooms[r].users : pc'[x] # pc[x]
      ]_vars

\* the create-room handler of c made the room: it called the bridge for it
CreatedBound(c) ==
    /\ frame[c].msg.type = "create-room"
    /\ \E i \in DOMAIN sent[c] :
          /\ sent[c][i].to = IrcPeer
          /\ sent[c][i].type \in {"connect", "join_channel"}

\* C37: when the handler of a create-room that made the room returns, with
\* no bridge call having raised and its own websocket open, the room exists,
\* the creator is a member, the creator's client id is the moderator id and
\* the creator has been sent room-joined.
C37_CreatorEndsInItsRoom ==
    \A c \in Conns :
        ( /\ pc[c] = "ret"
          /\ CreatedBound(c)
          /\ frame[c].exc \notin {"ConnectionError", "ConnectionClosed"} )
        => LET r == frame[c].msg.roomId IN
           /\ r \in DOMAIN rooms
           /\ c \in rooms[r].users
           /\ c \in DOMAIN clients
           /\ clients[c].room = r
           /\ rooms[r].moderator = clients[c].id
           /\ Count(c, c, "room-joined") = 1

\* the room-joined reply of the join k is in the middle of lists websocket j
\* in its roster
ListedInRoster(k, j) ==
    \E i \in DOMAIN sent[k] :
        /\ sent[k][i].type = "room-joined"
        /\ sent[k][i].to = k
        /\ \E u \in sent[k][i].users : u.ws = j

\* C38: no step sends a member k a user-joined for a connection j that the
\* roster of k's own room-joined reply, for the stay k is in, already listed.
C38_AnnouncedOncePerStay ==
    [][\A j \in Conns : \A i \in DOMAIN sent'[j] :
         ( /\ i > Len(sent[j])
           /\ sent'[j][i].type = "user-joined"
           /\ j \in DOMAIN clients
           /\ sent'[j][i].clientId = clients[j].id )
         => ~ListedInRoster(sent'[j][i].to, j)
      ]_vars

\* Two connections registered under the same client id: 'a' created r1, and
\* connections 2 and 3 both registered as 'b' and joined it.
TwinInit ==
    /\ clients = (1 :> Session("a", "r1")) @@ (2 :> Session("b", "r1"))
                    @@ (3 :> Session("b", "r1"))
    /\ rooms = ("r1" :> [NewRoom(None, None, "a") EXCEPT !.users = {1, 2, 3}])
    /\ irc_bridge = None
    /\ room_channels = <<>>
    /\ message_callbacks = {}
    /\ open = [c \in Conns |-> TRUE]
    /\ pc = [c \in Conns |-> "idle"]
    /\ frame = [c \in Conns |-> NoFrame]
    /\ sent = [c \in Conns |-> <<>>]
    /\ nmsgs = 0
    /\ inbound = NoDelivery

\* bans and disconnects in the room of the twins
TwinNext ==
    \E c \in Conns :
        \/ \E id \in ClientIds, t \in 0..NumConns :
              Budget(TwinMsgs) /\ BanUser(c, id, t)
        \/ CloseTarget(c)
        \/ ClientClose(c)
        \/ Return(c)
        \/ Unregister(c)
        \/ UnregBcastDone(c)
        \/ TaskEnd(c)

TwinSpec == TwinInit /\ [][TwinNext]_vars

\* no handler is running and every closed connection has been cleaned up
Settled ==
    /\ AtRest
    /\ \A c \in Conns : ~open[c] => pc[c] = "gone"

\* C39: once the ban-user for a client id has been handled and the cleanups
\* it set off have run, no member of the room is registered under a banned
\* id, however many connections were registered under it.
C39_BanRemovesEverySession ==
    Settled
    => \A r \in DOMAIN rooms :
          \A x \in rooms[r].users \cap DOMAIN clients :
             clients[x].id \notin rooms[r].banned

\* A room bound to an IRC channel next to one that is not: 'a' created r1
\* for channel 'chan' and 'b' joined it; 'x' is in r2; the bridge is
\* connected.
ChatInit ==
    /\ clients = (1 :> Session("a", "r1")) @@ (2 :> Session("b", "r1"))
                    @@ (3 :> Session("x", "r2"))
    /\ rooms = ("r1" :> [NewRoom(None, "chan", "a") EXCEPT !.users = {1, 2}])
                 @@ ("r2" :> [NewRoom(None, None, "x") EXCEPT !.users = {3}])
    /\ irc_bridge = "connected"
    /\ room_channels = ("r1" :> Channel("chan"))
    /\ message_callbacks = {"r1"}
    /\ open = [c \in Conns |-> TRUE]
    /\ pc = [c \in Conns |-> "idle"]
    /\ frame = [c \in Conns |-> NoFrame]
    /\ sent = [c \in Conns |-> <<>>]
    /\ nmsgs = 0
    /\ inbound = NoDelivery

\* chat in both directions, media states, joins, leaves and disconnects
ChatNext ==
    \/ \E r \in RoomIds :
          Budget(ChatMsgs) /\ IrcInbound(Channel("chan"), "nick", "yo", r)
    \/ \E c \in Conns :
          \/ Budget(ChatMsgs) /\ ChatMessage(c, "hi")
          \/ \E type \in StateTypes, enabled \in {None, "false"} :
                Budget(ChatMsgs) /\ MediaState(c, type, enabled)
          \/ \E r \in RoomIds :
                Budget(ChatMsgs) /\ JoinRoomMsg(c, r, None)
          \/ Budget(ChatMsgs) /\ LeaveRoomMsg(c)
          \/ ClientClose(c)
          \/ Continue(c)
          \/ \E ok \in BOOLEAN : IrcNoticeDone(c, ok)
          \/ \E ok \in BOOLEAN : LeavePartDone(c, ok)
          \/ \E ok \in BOOLEAN : UnregNoticeDone(c, ok)
          \/ \E ok \in BOOLEAN : UnregPartDone(c, ok)

ChatSpec == ChatInit /\ [][ChatNext]_vars

\* the websockets of the member set of r that have a session
Members(r) ==
    IF Truthy(r) /\ r \in DOMAIN rooms
    THEN rooms[r].users \cap DOMAIN clients
    ELSE {}

\* the step is the listener's: it handles a PRIVMSG
Delivers == nmsgs' # nmsgs /\ pc' = pc

\* C31: a PRIVMSG the bridge hands to the callback of a room that exists and
\* is bound to a channel sends every member of the room, none left out, one
\* chat-message with the author's nick tagged " (IRC)" as username, and sends
\* nothing to anybody else.
C31_InboundReachesTheRoom ==
    [][( /\ Delivers
         /\ inbound'.room \in DOMAIN rooms
         /\ Truthy(rooms[inbound'.room].irc_channel) )
       => LET evs == inbound'.evs IN
          /\ \A i \in DOMAIN evs :
                /\ evs[i].type = "chat-message"
                /\ evs[i].username = inbound'.nick \o " (IRC)"
                /\ evs[i].message = "yo"
          /\ \A x \in Conns :
                Cardinality({i \in DOMAIN evs : evs[i].to = x})
                    = IF x \in Members(inbound'.room) THEN 1 ELSE 0
      ]_vars

\* C31's case: a PRIVMSG has gone to two members of the bound room while a
\* session is in another room.
C31_Witness ==
    /\ inbound.room = "r1"
    /\ Len(inbound.evs) = 2
    /\ \E x \in DOMAIN clients :
          /\ clients[x].room = "r2"
          /\ x \in rooms["r2"].users
          /\ \A i \in DOMAIN inbound.evs : inbound.evs[i].to # x

\* the types of the messages a session says to its room
SayTypes == {"chat-message"} \cup StateTypes

\* C40: a chat-message, video-state or audio-state of a session sends one
\* event of its type to each member of the session's room (the sender too
\* for chat-message, the sender not for the two others) and to nobody else;
\* a sender in no room sends nothing.
C40_SaidToTheRoomOnly ==
    [][\A c \in Conns : \A type \in SayTypes :
         (Receives(c, type) /\ c \in DOMAIN clients)
         => LET members == Members(clients[c].room)
                expect == IF type = "chat-message" THEN members
                          ELSE members \ {c}
                evs == sent'[c]
            IN  /\ \A i \in DOMAIN evs :
                      evs[i].to # IrcPeer => evs[i].type = type
                /\ \A x \in Conns :
                      Cardinality({i \in DOMAIN evs : evs[i].to = x})
                          = IF x \in expect THEN 1 ELSE 0
                /\ ~Truthy(clients[c].room)
                      => evs = <<>> /\ pc'[c] = "ret"
      ]_vars

\* C40's case: a chat-message has gone to its sender and to the other member
\* of its room, and a session of another room got nothing.
C40_Witness ==
    \E c \in Conns :
        /\ pc[c] = "fin_bcast"
        /\ frame[c].msg.type = "chat-message"
        /\ Count(c, c, "chat-message") = 1
        /\ \E x \in Conns \ {c} : Count(c, x, "chat-message") = 1
        /\ \E y \in DOMAIN clients :
              /\ Truthy(clients[y].room)
              /\ clients[y].room # clients[c].room
              /\ Count(c, y, "chat-message") = 0

====
